---- MODULE Spec2Model ----
(***************************************************************************)
(* Model of the AurexisAgent task execution engine:                        *)
(*   - topologicalSort          (lib/utils/topological-sort.ts)            *)
(*   - executeTask, executePlan (lib/agent/executor.ts)                    *)
(*   - the result cache and its backends (lib/agent/cache-client.ts)       *)
(* JavaScript runs every callback to completion, so the scheduler's        *)
(* startNext loop never interleaves with a worker continuation: workers    *)
(* only step while the driver of executePlan is suspended at an await.     *)
(***************************************************************************)
EXTENDS Integers, Sequences, FiniteSets, TLC

(* ---------------------------- bounds ----------------------------------- *)
MaxChain == 3          \* longest dependency chain
MaxDeps == 2           \* longest dependency list of the exhaustive 2-task plans
MaxKeys == 2           \* distinct cache fingerprints
MaxTime == 1           \* last value of the wall clock
MaxOps == 3            \* calls made to the cache client in one behaviour
MaxDays == 1           \* multiples of the default TTL the cache clock reaches
MaxPosts == 11         \* requests sent to the route in one behaviour
MaxLlmTasks == 2       \* tasks in the object the LLM returns
MaxTasks == 3          \* longest task list handed to topologicalSort on its own
MaxStreamTasks == 2    \* tasks of the plan whose execution is streamed
MaxTokens == 2         \* words and placeholders after 'search for:' in a description

(* ----------------------- program constants ----------------------------- *)
MAX_CONCURRENCY == 3
MAX_ATTEMPTS == 3

\* task ids are the numeric suffixes 1..MaxId of task-<n>; id 0 is referenced
\* as a dependency but owned by no task
MaxId == IF MaxChain > MAX_CONCURRENCY + 1 THEN MaxChain ELSE MAX_CONCURRENCY + 1
Ids == 0..MaxId
Keys == 1..MaxKeys

\* how the synchronous prefix of executeTask ends for a task: with the cache
\* lookup ("ok"), or with an exception thrown by the tool lookup, by the
\* parameter resolution or by a required-field check
Kinds == {"ok", "unknownTool", "resolveThrows", "missingField"}

(* ---------------------------- helpers ---------------------------------- *)
Range(s) == {s[i] : i \in 1..Len(s)}

SeqsUpTo(S, n) == UNION {[1..k -> S] : k \in 0..n}

\* F(v), with v evaluated once
Once(v, F(_)) == CHOOSE y \in {F(x) : x \in {v}} : TRUE

RECURSIVE Count(_, _)
Count(s, x) == IF s = <<>> THEN 0
               ELSE (IF Head(s) = x THEN 1 ELSE 0) + Count(Tail(s), x)

(* ------------------------------ plans ---------------------------------- *)
\* a task: its id (the numeric suffix of task-<n>), its dependency list, how
\* its tool and parameters resolve, and the fingerprint of its cache key
TaskK(i, d, kind, k) == [id |-> i, deps |-> d, kind |-> kind, key |-> k]
\* a task with a known tool and resolvable parameters; tasks share a
\* fingerprint when they agree in tool, description and key field
KeyOf(i) == ((i - 1) % MaxKeys) + 1
Task(i, d) == TaskK(i, d, "ok", KeyOf(i))

Chain(n) == [i \in 1..n |-> Task(i, IF i = 1 THEN <<>> ELSE <<i - 1>>)]
Indep(n) == [i \in 1..n |-> Task(i, <<>>)]
FanOut(n) == [i \in 1..n |-> Task(i, IF i = 1 THEN <<>> ELSE <<1>>)]
Diamond == <<Task(1, <<>>), Task(2, <<1>>), Task(3, <<1>>), Task(4, <<2, 3>>)>>
CycleWithTail == <<Task(3, <<>>), Task(1, <<2>>), Task(2, <<1>>), Task(4, <<3>>)>>
DanglingMixed == <<Task(1, <<>>), Task(2, <<1, 0>>), Task(3, <<1>>)>>
\* task-4 is listed twice, behind a first wave of three tasks that fail on
\* their tool lookup
DuplicateId ==
  <<TaskK(1, <<>>, "unknownTool", 1), TaskK(2, <<>>, "unknownTool", 1),
    TaskK(3, <<>>, "unknownTool", 1), Task(4, <<>>), Task(4, <<>>)>>

\* task-3 is listed before task-2; both wait for task-1
OutOfOrder == <<Task(1, <<>>), Task(3, <<1>>), Task(2, <<1>>)>>

\* every plan of two tasks (listed in either order) whose dependency lists are
\* arbitrary sequences over {task-0 (dangling), task-1, task-2}
ShapePlans ==
  {<<Task(a, d1), Task(3 - a, d2)>> :
      a \in 1..2, d1 \in SeqsUpTo(0..2, MaxDeps), d2 \in SeqsUpTo(0..2, MaxDeps)}

\* two tasks, independent or chained, with every way their tools and
\* parameters can resolve and every choice of fingerprints
KindPlans ==
  {<<TaskK(1, <<>>, k1, f1), TaskK(2, d, k2, f2)>> :
      d \in {<<>>, <<1>>}, k1 \in Kinds, k2 \in Kinds, f1 \in Keys, f2 \in Keys}

Plans ==
  {Chain(n) : n \in 3..MaxChain}
    \cup {Indep(MAX_CONCURRENCY + 1), FanOut(MAX_CONCURRENCY + 1)}
    \cup {Diamond, CycleWithTail, DanglingMixed, DuplicateId, OutOfOrder}
    \cup ShapePlans \cup KindPlans

TaskIdsOf(tasks) == {tasks[i].id : i \in 1..Len(tasks)}

\* new Map(plan.tasks.map(t => [t.id, t])): the last task listed under an id wins
LastIndexOf(tasks, id) ==
  CHOOSE i \in 1..Len(tasks) :
    /\ tasks[i].id = id
    /\ \A j \in (i + 1)..Len(tasks) : tasks[j].id # id
TaskOf(tasks, id) == tasks[LastIndexOf(tasks, id)]

(* ------------------------- topologicalSort ----------------------------- *)
\* graph: id -> ids of the tasks that list it, one entry per listing, in
\* task order then dependency order
RECURSIVE DependentsOf(_, _)
DependentsOf(tasks, id) ==
  IF tasks = <<>> THEN <<>>
  ELSE [k \in 1..Count(Head(tasks).deps, id) |-> Head(tasks).id]
         \o DependentsOf(Tail(tasks), id)

\* mutant: a task is entered once under a dependency it lists several times
BuildGraphDistinct(tasks) ==
  [id \in Ids |->
     LET listing == SelectSeq(tasks, LAMBDA t : Count(t.deps, id) > 0)
     IN [k \in 1..Len(listing) |-> listing[k].id]]

BuildGraph(tasks) == [id \in Ids |-> DependentsOf(tasks, id)]

\* inDegree: one increment per listed dependency, accumulated per task id
RECURSIVE InDegreeOf(_, _)
InDegreeOf(tasks, id) ==
  IF tasks = <<>> THEN 0
  ELSE (IF Head(tasks).id = id THEN Len(Head(tasks).deps) ELSE 0)
         + InDegreeOf(Tail(tasks), id)

BuildInDegree(tasks) == [id \in Ids |-> InDegreeOf(tasks, id)]

\* ids in Map insertion order (first occurrence in the task list)
RECURSIVE KeyOrder(_, _)
KeyOrder(tasks, seen) ==
  IF tasks = <<>> THEN <<>>
  ELSE IF Head(tasks).id \in seen THEN KeyOrder(Tail(tasks), seen)
  ELSE <<Head(tasks).id>> \o KeyOrder(Tail(tasks), seen \cup {Head(tasks).id})

\* one pass of dependents.forEach: decrement, enqueue on reaching zero;
\* s = [inDeg, queue]
\* mutant: a dependent is enqueued while a dependency of it is still waiting
ReachedZeroEarly(newDegree) == newDegree <= 1
\* if (newDegree === 0)
ReachedZero(newDegree) == newDegree = 0

RelaxOne(d, s) ==
  [inDeg |-> [s.inDeg EXCEPT ![d] = @ - 1],
   queue |-> IF ReachedZero(s.inDeg[d] - 1) THEN Append(s.queue, d) ELSE s.queue]

RECURSIVE Relax(_, _)
Relax(ds, s) ==
  IF ds = <<>> THEN s
  ELSE Once(RelaxOne(Head(ds), s), LAMBDA x : Relax(Tail(ds), x))

\* one iteration of while (queue.length > 0); s = [inDeg, queue, result]
KahnStep(tasks, graph, s) ==
  LET taskId == Head(s.queue)
  IN Once(Relax(graph[taskId], [inDeg |-> s.inDeg, queue |-> Tail(s.queue)]),
          LAMBDA r : [inDeg |-> r.inDeg, queue |-> r.queue,
                      result |-> Append(s.result, TaskOf(tasks, taskId))])

RECURSIVE Kahn(_, _, _)
Kahn(tasks, graph, s) ==
  IF s.queue = <<>> THEN s.result
  ELSE Once(KahnStep(tasks, graph, s), LAMBDA x : Kahn(tasks, graph, x))

KahnOrder(tasks) ==
  Once(BuildInDegree(tasks), LAMBDA inDeg :
    Kahn(tasks, BuildGraph(tasks),
         [inDeg |-> inDeg,
          queue |-> SelectSeq(KeyOrder(tasks, {}), LAMBDA id : inDeg[id] = 0),
          result |-> <<>>]))

\* path.indexOf(x), counted from 1
IndexOf(path, x) ==
  CHOOSE i \in 1..Len(path) : path[i] = x /\ \A j \in 1..(i - 1) : path[j] # x

\* mutant: the whole path walked from the start task is reported
WholePath(path, startTaskId) == Append(path, startTaskId)
\* path.slice(path.indexOf(startTaskId)).concat(startTaskId)
CyclePath(path, startTaskId) ==
  Append(SubSeq(path, IndexOf(path, startTaskId), Len(path)), startTaskId)

\* null
NoCycle == <<>>

\* findCycle(startTaskId, visited, path): depth-first along the dependency
\* lists of taskMap; FirstCycle is its loop over task.dependencies, after
\* which the task is popped from path and deleted from visited
RECURSIVE findCycle(_, _, _, _), FirstCycle(_, _, _, _)
findCycle(tasks, startTaskId, visited, path) ==
  IF startTaskId \in visited THEN CyclePath(path, startTaskId)
  ELSE IF startTaskId \notin TaskIdsOf(tasks) THEN NoCycle
  ELSE FirstCycle(tasks, TaskOf(tasks, startTaskId).deps,
                  visited \cup {startTaskId}, Append(path, startTaskId))
FirstCycle(tasks, deps, visited, path) ==
  IF deps = <<>> THEN NoCycle
  ELSE Once(findCycle(tasks, Head(deps), visited, path), LAMBDA cycle :
         IF cycle # NoCycle THEN cycle
         ELSE FirstCycle(tasks, Tail(deps), visited, path))

\* tasks.filter(t => !processedTasks.has(t.id))
RemainingTasks(tasks, result) ==
  SelectSeq(tasks, LAMBDA t : t.id \notin TaskIdsOf(result))

\* for (const task of remainingTasks) { cycle = findCycle(...); if (cycle) break }
RECURSIVE SearchCycle(_, _)
SearchCycle(tasks, remaining) ==
  IF remaining = <<>> THEN NoCycle
  ELSE Once(findCycle(tasks, Head(remaining).id, {}, <<>>), LAMBDA cycle :
         IF cycle # NoCycle THEN cycle
         ELSE SearchCycle(tasks, Tail(remaining)))

\* the error thrown: the ids after 'Tasks involved in cycle:' and the ids
\* after 'Cycle path:' (empty when that line is left out)
SortError(tasks, result) ==
  Once(RemainingTasks(tasks, result), LAMBDA remaining :
    Once(SearchCycle(tasks, remaining), LAMBDA cycle :
      [ok |-> FALSE, order |-> <<>>,
       involved |-> [i \in 1..Len(remaining) |-> remaining[i].id],
       cyclePath |-> IF cycle # NoCycle /\ Len(cycle) > 1 THEN cycle ELSE <<>>]))

\* if (result.length !== tasks.length) throw new Error('Circular dependency ...')
topologicalSort(tasks) ==
  Once(KahnOrder(tasks), LAMBDA result :
    IF Len(result) # Len(tasks) THEN SortError(tasks, result)
    ELSE [ok |-> TRUE, order |-> result, involved |-> <<>>, cyclePath |-> <<>>])

\* mutant: the fallback keeps the order of plan.tasks
FallbackUnsorted(tasks) == tasks

\* [...plan.tasks].sort((a, b) => aNum - bNum): stable, by numeric id suffix
RECURSIVE InsertById(_, _)
InsertById(sorted, t) ==
  IF sorted = <<>> THEN <<t>>
  ELSE IF Head(sorted).id <= t.id THEN <<Head(sorted)>> \o InsertById(Tail(sorted), t)
  ELSE <<t>> \o sorted

RECURSIVE FallbackOrder(_)
FallbackOrder(tasks) ==
  IF tasks = <<>> THEN <<>>
  ELSE Once(FallbackOrder(SubSeq(tasks, 1, Len(tasks) - 1)),
            LAMBDA sorted : InsertById(sorted, tasks[Len(tasks)]))

(* ------------------------------ state ---------------------------------- *)
VARIABLES
  plan,             \* plan.tasks, the input of executePlan
  pc,               \* position of the executePlan driver
  sortedTasks,      \* order used to initialise the scheduling state
  sortFailed,       \* topologicalSort threw its circular-dependency error
  results,          \* Map<string, TaskResult>
  completedTaskIds,
  failedTaskIds,
  inProgress,
  depCount,
  dependents,
  readyQueue,
  worker,           \* per task id: the executeTask call started for it
  toolCalls,        \* per task id: number of toolExecutor invocations
  updates,          \* per task id: statuses passed to onUpdate, in order
  cache,            \* store of the in-memory AgentCache: key -> payload
  now,              \* wall clock read by new Date()
  backend,          \* which AgentCache getAgentCache() hands to executeTask
  enqueued,         \* the ids pushed on readyQueue so far, in order
  dispatched,       \* the ids whose `running` update was emitted, in order
  \* the cache client observed on its own, through its interface
  env,              \* credentials configured, remote client can be created
  cc,               \* cacheInstance, the proxy's client, the in-memory
                    \* caches created so far, their cleanup timers, the
                    \* remote store
  clock,            \* Date.now()
  handle,           \* the AgentCache the caller got from getAgentCache()
  lastSet,          \* per key: the latest set(key, ...) the caller made
  lastOp,           \* the latest get or set the caller made, with its result
  ops,              \* number of calls made so far
  fp,               \* two argument maps and what generateKey made of them
  \* the route and its rate limiter
  rateLimitStore,   \* Map<string, RateLimitEntry>
  granted,          \* per client and instant: the calls rateLimit allowed
  response,         \* the latest request and what the route answered
  posts,            \* number of requests so far
  sse,              \* the event stream of one admitted request: position of
                    \* start(controller), the plan, the chunks enqueued, the
                    \* closed flag, the updates array, the consumer
  \* the planner
  request,          \* the goal, what the LLM call does, and the time that
                    \* has passed when the attempt loop is entered
  generated,        \* what generatePlan settled with
  sortInput,        \* the task list topologicalSort is called with on its own
  sortOutcome,      \* what that call returned or threw
  \* parameter resolution of one web_search task, in two runs of one plan
  resolveInput,     \* the task, taskMap, and the result map of either run
  resolved          \* the arguments executeTask resolved in either run

clientVars == <<env, cc, clock, handle, lastSet, lastOp, ops, fp>>

vars == <<plan, pc, sortedTasks, sortFailed, results, completedTaskIds,
          failedTaskIds, inProgress, depCount, dependents, readyQueue,
          worker, toolCalls, updates, cache, now, backend, enqueued,
          dispatched, clientVars, rateLimitStore, granted, response, posts,
          sse, request, generated, sortInput, sortOutcome, resolveInput,
          resolved>>

resolveVars == <<resolveInput, resolved>>

sortVars == <<sortInput, sortOutcome>>

plannerVars == <<request, generated>>

limiterVars == <<rateLimitStore, granted, response, posts>>

routeVars == <<limiterVars, sse>>

logVars == <<enqueued, dispatched>>

schedVars == <<results, completedTaskIds, failedTaskIds, inProgress,
               depCount, dependents, readyQueue>>

NoTime == -1
NoPayload == [from |-> "none", task |-> 0]
NoError == [msg |-> "", ids |-> <<>>]
Err(m) == [msg |-> m, ids |-> <<>>]

TaskResult(t, st, payload, err, started, completed) ==
  [taskId |-> t, status |-> st, result |-> payload, error |-> err,
   startedAt |-> started, completedAt |-> completed]

NoResult == TaskResult(0, "none", NoPayload, NoError, NoTime, NoTime)

\* what a toolExecutor resolves with for the task: a non-empty object
ToolPayload(t) == [from |-> "tool", task |-> t]
\* an entry left in the process-wide cache by an earlier plan execution
OldPayload == [from |-> "cache", task |-> 0]

\* the error thrown by the (attempt + 1)-th invocation of the tool
ToolError(attempt) == Err(<<"tool error 1", "tool error 2", "tool error 3">>[attempt + 1])

\* waits: the delays of the backoff timers started so far, in order
IdleWorker == [pc |-> "idle", attempt |-> 0, lastError |-> NoError, key |-> 0,
               startTime |-> NoTime, cached |-> NoPayload, ret |-> NoResult,
               waits |-> <<>>]

\* mutant: the update never reaches the callback
NotifyDropped(log, status) == log

\* onUpdate?.({ taskId, status, ... }): the callback sees one more update
Notify(log, status) == Append(log, status)

(* values of the cache client *)
DEFAULT_TTL_MS == 24 * 60 * 60 * 1000
Null == "null"
\* a CacheValue { result, timestamp }.  ttl is the ttlMs its set was called
\* with: the remote store keeps it as the expiry of the key, the in-memory
\* store does not keep it (the model carries it for the properties)
Entry(v, at, ttl) == [result |-> v, timestamp |-> at, ttl |-> ttl]
NoEntry == Entry(Null, 0, 0)
NewStore == [k \in Keys |-> NoEntry]
\* the AgentCache objects: none, the lazy proxy, the n-th InMemoryAgentCache
NullObj == [kind |-> "null", n |-> 0]
ProxyObj == [kind |-> "proxy", n |-> 0]
MemObj(i) == [kind |-> "memory", n |-> i]
\* the module just loaded: cacheInstance = null, the proxy's client = null
NewProcess == [cacheInstance |-> NullObj, client |-> Null, instances |-> <<>>,
               timers |-> {}, remote |-> NewStore]
NoSet == [seq |-> 0, value |-> Null, at |-> 0, ttl |-> 0, via |-> NullObj]
NoOp == [seq |-> 0, op |-> "none", key |-> 0, via |-> NullObj, at |-> 0,
         entry |-> NoEntry]
NoFingerprint == [parts |-> <<>>, normalized |-> <<>>, key |-> <<>>]

(* values of the route *)
RATE_LIMIT_WINDOW == 60 * 1000
RATE_LIMIT_MAX_REQUESTS == 10
Clients == {"ip1", "ip2"}
\* the instants requests arrive at: the start of a window, its resetAt, and
\* one millisecond after each
RateInstants == {0, 1, RATE_LIMIT_WINDOW, RATE_LIMIT_WINDOW + 1}
\* a RateLimitEntry { count, resetAt }; count 0 stands for no entry
RateLimitEntry(n, r) == [count |-> n, resetAt |-> r]
NoRateEntry == RateLimitEntry(0, 0)
NoResponse == [client |-> "none", at |-> 0, allowed |-> FALSE, remaining |-> 0,
               resetAt |-> 0, status |-> 0, retryAfter |-> -1, planned |-> FALSE]

\* a chunk of the event stream: `data: {type, ...data}`
Event(type, stage, taskId, status, taskResults) ==
  [type |-> type, stage |-> stage, taskId |-> taskId, status |-> status,
   taskResults |-> taskResults]
StatusEvent(stage) == Event("status", stage, 0, "", <<>>)
PlanEvent == Event("plan", "", 0, "", <<>>)
TaskUpdateEvent(t, status) == Event("task_update", "", t, status, <<>>)
CompleteEvent(taskResults) == Event("complete", "", 0, "", taskResults)
ErrorEvent == Event("error", "", 0, "", <<>>)

\* the state of start(controller): closed is the flag of line 46,
\* closeCalled says that controller.close() was called, consumer whether the
\* reader of the response still reads or has cancelled the stream
NewStream ==
  [pc |-> "start", tasks |-> <<>>, events |-> <<>>, closed |-> FALSE,
   closeCalled |-> FALSE, updates |-> <<>>, consumer |-> "reading"]
NoStream == [NewStream EXCEPT !.pc = "unused"]

\* no request has come in
LimiterUnused ==
  /\ rateLimitStore = [c \in Clients |-> NoRateEntry]
  /\ granted = [c \in Clients |-> [t \in RateInstants |-> 0]]
  /\ response = NoResponse
  /\ posts = 0

\* the route takes no request
RouteUnused ==
  /\ LimiterUnused
  /\ sse = NoStream

(* values of the planner *)
\* what generatePlan reads of the goal: which keywords it includes
Goal(weather, convert, activity, stock, math, research) ==
  [weather |-> weather, convert |-> convert, activity |-> activity,
   stock |-> stock, math |-> math, research |-> research]
NoGoal == Goal(FALSE, FALSE, FALSE, FALSE, "none", FALSE)
\* a task of a plan: id n stands for task-n; temp: the description of a
\* calculator task includes 'temp'
PlanTask(i, tool, temp, deps) == [id |-> i, tool |-> tool, temp |-> temp, deps |-> deps]
NoLlm == [kind |-> "none", tasks |-> <<>>]
NoRequest == [goal |-> NoGoal, llm |-> NoLlm, elapsed |-> 0]
NotGenerated == [status |-> "none", tasks |-> <<>>]

(* values of topologicalSort called on its own *)
NotSorted ==
  [called |-> FALSE, ok |-> FALSE, order |-> <<>>, involved |-> <<>>, cyclePath |-> <<>>]

\* topologicalSort is not called outside executePlan
SortUnused ==
  /\ sortInput = <<>>
  /\ sortOutcome = NotSorted

(* values of the parameter resolution *)
NoSearchTask == [id |-> 0, given |-> <<>>, body |-> <<>>, deps |-> <<>>]
NotResolved == [called |-> FALSE, without |-> <<>>, with |-> <<>>]

\* no parameter resolution is observed on its own
ResolveUnused ==
  /\ resolveInput = [task |-> NoSearchTask, taskMap |-> <<>>, without |-> <<>>,
                     with |-> <<>>]
  /\ resolved = NotResolved

\* generatePlan is not called
PlannerUnused ==
  /\ request = NoRequest
  /\ generated = NotGenerated

\* the cache client is not observed
ClientUnused ==
  /\ env = [configured |-> FALSE, importOk |-> FALSE]
  /\ cc = NewProcess
  /\ clock = 0
  /\ handle = NullObj
  /\ lastSet = [k \in Keys |-> NoSet]
  /\ lastOp = NoOp
  /\ ops = 0
  /\ fp = <<NoFingerprint, NoFingerprint>>

Init ==
  /\ ClientUnused
  /\ RouteUnused
  /\ PlannerUnused /\ SortUnused /\ ResolveUnused
  /\ enqueued = <<>>
  /\ dispatched = <<>>
  /\ plan \in Plans
  /\ pc = "start"
  /\ sortedTasks = <<>>
  /\ sortFailed = FALSE
  /\ results = [t \in Ids |-> NoResult]
  /\ completedTaskIds = {}
  /\ failedTaskIds = {}
  /\ inProgress = {}
  /\ depCount = [t \in Ids |-> 0]
  /\ dependents = [t \in Ids |-> <<>>]
  /\ readyQueue = <<>>
  /\ worker = [t \in Ids |-> IdleWorker]
  /\ toolCalls = [t \in Ids |-> 0]
  /\ updates = [t \in Ids |-> <<>>]
  /\ cache \in [Keys -> {NoPayload, OldPayload}]
  /\ now = 0
  /\ backend = "memory"

(* ---------------------------- executeTask ------------------------------ *)
\* mutant: the loop test admits one attempt too many
LoopContinuesOffByOne(attempt) == attempt <= MAX_ATTEMPTS

\* for (let attempt = 0; attempt < 3; attempt++)
LoopContinues(attempt) == attempt < MAX_ATTEMPTS
\* if (attempt < 2) { notify, back off, continue }
RetryAllowed(attempt) == attempt < 2

\* mutant: the delays shrink from one retry to the next
BackoffDelayShrinking(attempt) == 1000 * (MAX_ATTEMPTS - attempt)

\* setTimeout(resolve, 1000 * (attempt + 1))
BackoffDelay(attempt) == 1000 * (attempt + 1)

\* InMemoryAgentCache.get: the store is read while the call is made
CacheGet(store, k) == store[k]
\* mutant: an entry that is already stored is kept
CacheSetIfAbsent(store, k, payload) ==
  IF store[k] = NoPayload THEN [store EXCEPT ![k] = payload] ELSE store

\* InMemoryAgentCache.set
CacheSet(store, k, payload) == [store EXCEPT ![k] = payload]
\* mutant: a cached result is never used
IsHitNever(cached) == FALSE

\* if (cached?.result)
IsHit(cached) == cached # NoPayload

\* the AgentCache objects getAgentCache() can hand out: the in-memory cache,
\* the lazy proxy whose remote client works ("redis"), and the lazy proxy
\* whose client cannot be initialised ("proxy")
Backends == {"memory", "redis", "proxy"}
EmptyStore == [k \in Keys |-> NoPayload]
\* a rejection of the promise returned by cache.get
Rejected == [from |-> "rejected", task |-> 0]

\* mutant: an exception of the remote client or of its initialisation
\* escapes from get
GetOutcomesUncaught(b, atCall, store, k) ==
  IF b = "memory" THEN {[cached |-> atCall, store |-> store]}
  ELSE {[cached |-> store[k], store |-> store], [cached |-> Rejected, store |-> store]}

\* what `await cache.get(cacheKey)` resolves with, and the store left behind.
\* memory: the entry read when the call was made.  redis: the entry of the
\* remote store, or null when client.get throws.  proxy: ensure() installs a
\* new empty InMemoryAgentCache and the lookup goes to it; a task that got
\* an installed InMemoryAgentCache from getAgentCache() reads that one.
GetOutcomes(b, atCall, store, k) ==
  CASE b = "memory" -> {[cached |-> atCall, store |-> store]}
    [] b = "redis" -> {[cached |-> store[k], store |-> store],
                       [cached |-> NoPayload, store |-> store]}
    [] OTHER -> {[cached |-> NoPayload, store |-> EmptyStore],
                 [cached |-> atCall, store |-> store]}

\* mutant: the result is returned without being stored
SetOutcomesNoWrite(b, store, k, payload) == {store}

\* the store after `await cache.set(cacheKey, result, TASK_TTL_MS)`.
\* redis: client.set may throw, which set swallows.  proxy: ensure() installs
\* a new InMemoryAgentCache that receives the entry.
SetOutcomes(b, store, k, payload) ==
  CASE b = "memory" -> {CacheSet(store, k, payload)}
    [] b = "redis" -> {CacheSet(store, k, payload), store}
    [] OTHER -> {CacheSet(EmptyStore, k, payload), CacheSet(store, k, payload)}

\* mutant: no outer catch, the exception escapes and executeTask rejects
OuterCatchMissing(t, err, started, at) ==
  TaskResult(t, "rejected", NoPayload, err, started, at)

\* the outer catch of executeTask: every exception becomes a failed TaskResult
OuterCatch(t, err, started, at) ==
  TaskResult(t, "failed", NoPayload, err, started, at)

\* mutant: the required field is never checked
RequiredFieldUnchecked(kind) == FALSE

\* if (task.tool === 'web_search' && !params.query) throw ...  (and the same
\* for the city of api, the expression of calculator, the symbol of stock)
RequiredFieldMissing(kind) == kind = "missingField"

\* executeTask from its call to its first await: tool lookup, parameter
\* resolution, required-field checks, key generation, cache.get
SyncPrefix(t, kind, k, store, at) ==
  LET w == [IdleWorker EXCEPT !.startTime = at]
  IN CASE kind = "unknownTool" ->
            [w EXCEPT !.pc = "returned",
                      !.ret = OuterCatch(t, Err("Unknown tool"), at, at)]
       [] kind = "resolveThrows" ->
            [w EXCEPT !.pc = "returned",
                      !.ret = OuterCatch(t, Err("Parameter resolution threw"), at, at)]
       [] RequiredFieldMissing(kind) ->
            [w EXCEPT !.pc = "returned",
                      !.ret = OuterCatch(t, Err("Task requires a field"), at, at)]
       [] OTHER ->
            [w EXCEPT !.pc = "cacheGet", !.key = k, !.cached = CacheGet(store, k)]

\* executePlan is suspended at an await (or has returned): only then can the
\* continuation of a worker run
DriverSuspended == pc \in {"sleep", "done"}

\* await cache.get resumes: a hit returns, a miss makes the first tool call
CacheGetReturn(t) ==
  /\ DriverSuspended
  /\ worker[t].pc = "cacheGet"
  /\ \E out \in GetOutcomes(backend, worker[t].cached, cache, worker[t].key) :
       /\ cache' = out.store
       /\ IF out.cached = Rejected
          THEN \* the rejection lands in the outer catch
               /\ worker' = [worker EXCEPT ![t].pc = "returned",
                      ![t].ret = OuterCatch(t, Err("cache.get rejected"),
                                            worker[t].startTime, now)]
               /\ UNCHANGED toolCalls
          ELSE IF IsHit(out.cached)
          THEN /\ worker' = [worker EXCEPT ![t].pc = "returned",
                      ![t].cached = out.cached,
                      ![t].ret = TaskResult(t, "completed", out.cached, NoError,
                                            worker[t].startTime, now)]
               /\ UNCHANGED toolCalls
          ELSE /\ worker' = [worker EXCEPT ![t].pc = "tool", ![t].attempt = 0,
                                           ![t].cached = out.cached]
               /\ toolCalls' = [toolCalls EXCEPT ![t] = @ + 1]
  /\ UNCHANGED <<resolveVars, sortVars, plannerVars, routeVars, logVars, clientVars, backend, plan, pc, sortedTasks, sortFailed, schedVars, updates, now>>

\* await toolExecutor(params) resolves: cache.set, then return completed
ToolSucceeds(t) ==
  /\ DriverSuspended
  /\ worker[t].pc = "tool"
  /\ cache' \in SetOutcomes(backend, cache, worker[t].key, ToolPayload(t))
  /\ worker' = [worker EXCEPT ![t].pc = "returned",
          ![t].ret = TaskResult(t, "completed", ToolPayload(t), NoError,
                                worker[t].startTime, now)]
  /\ UNCHANGED <<resolveVars, sortVars, plannerVars, routeVars, logVars, clientVars, backend, plan, pc, sortedTasks, sortFailed, schedVars, toolCalls, updates, now>>

\* await toolExecutor(params) rejects: remember the error, then either
\* announce the retry and back off, or fall through to attempt++ and the
\* loop test
ToolThrows(t) ==
  /\ DriverSuspended
  /\ worker[t].pc = "tool"
  /\ LET a == worker[t].attempt
         e == ToolError(a)
     IN IF RetryAllowed(a)
        THEN /\ worker' = [worker EXCEPT ![t].pc = "backoff", ![t].lastError = e,
                                         ![t].waits = Append(@, BackoffDelay(a))]
             /\ updates' = [updates EXCEPT ![t] = Notify(@, "retry")]
             /\ UNCHANGED toolCalls
        ELSE IF LoopContinues(a + 1)
        THEN /\ worker' = [worker EXCEPT ![t].pc = "tool", ![t].lastError = e,
                                         ![t].attempt = a + 1]
             /\ toolCalls' = [toolCalls EXCEPT ![t] = @ + 1]
             /\ UNCHANGED updates
        ELSE /\ worker' = [worker EXCEPT ![t].pc = "returned", ![t].lastError = e,
                    ![t].attempt = a + 1,
                    ![t].ret = TaskResult(t, "failed", NoPayload, e,
                                          worker[t].startTime, now)]
             /\ UNCHANGED <<updates, toolCalls>>
  /\ UNCHANGED <<resolveVars, sortVars, plannerVars, routeVars, logVars, clientVars, backend, plan, pc, sortedTasks, sortFailed, schedVars, cache, now>>

\* the backoff timer fires: attempt++, loop test, next tool call
BackoffDone(t) ==
  /\ DriverSuspended
  /\ worker[t].pc = "backoff"
  /\ LET a == worker[t].attempt + 1
     IN IF LoopContinues(a)
        THEN /\ worker' = [worker EXCEPT ![t].pc = "tool", ![t].attempt = a]
             /\ toolCalls' = [toolCalls EXCEPT ![t] = @ + 1]
        ELSE /\ worker' = [worker EXCEPT ![t].pc = "returned", ![t].attempt = a,
                    ![t].ret = TaskResult(t, "failed", NoPayload, worker[t].lastError,
                                          worker[t].startTime, now)]
             /\ UNCHANGED toolCalls
  /\ UNCHANGED <<resolveVars, sortVars, plannerVars, routeVars, logVars, clientVars, backend, plan, pc, sortedTasks, sortFailed, schedVars, updates, cache, now>>

(* ---------------------------- executePlan ------------------------------ *)
\* depCount.set(task.id, task.dependencies.length): the last task listed wins
RECURSIVE BuildDepCount(_, _)
BuildDepCount(tasks, dc) ==
  IF tasks = <<>> THEN dc
  ELSE BuildDepCount(Tail(tasks),
                     [dc EXCEPT ![Head(tasks).id] = Len(Head(tasks).deps)])

\* mutant: every task starts in the ready queue
InitialReadyAll(tasks, dc) == [i \in 1..Len(tasks) |-> tasks[i].id]

\* sortedTasks.filter(t => (depCount.get(t.id) || 0) === 0).map(t => t.id)
InitialReady(tasks, dc) ==
  LET zero == SelectSeq(tasks, LAMBDA t : dc[t.id] = 0)
  IN [i \in 1..Len(zero) |-> zero[i].id]

\* lines 566-611: order the tasks and build the scheduling state
Setup ==
  /\ pc = "start"
  /\ \E sorted \in {topologicalSort(plan)} :
     \E order \in {IF sorted.ok THEN sorted.order ELSE FallbackOrder(plan)} :
     \E dc \in {BuildDepCount(order, [t \in Ids |-> 0])} :
        /\ sortFailed' = ~sorted.ok
        /\ sortedTasks' = order
        /\ depCount' = dc
        /\ dependents' = BuildGraph(order)
        /\ readyQueue' = InitialReady(order, dc)
        /\ enqueued' = InitialReady(order, dc)
  /\ pc' = "wave"
  /\ UNCHANGED <<resolveVars, sortVars, plannerVars, routeVars, dispatched, clientVars, backend, plan, results, completedTaskIds, failedTaskIds, inProgress,
                 worker, toolCalls, updates, cache, now>>

\* task.dependencies.every(d => completedTaskIds.has(d) && !failedTaskIds.has(d))
DepsMet(task, done, failed) ==
  \A i \in 1..Len(task.deps) : task.deps[i] \in done /\ task.deps[i] \notin failed

\* mutant: <= instead of <
HasCapacityOffByOne(running) == Cardinality(running) <= MAX_CONCURRENCY

\* while (inProgress.size < MAX_CONCURRENCY && readyQueue.length > 0)
HasCapacity(running) == Cardinality(running) < MAX_CONCURRENCY

\* mutant: a queued id is dispatched whatever happened to it before
AlreadyHandledNever(id, done, failed, running) == FALSE

\* if (completedTaskIds.has(nextId) || failedTaskIds.has(nextId) ||
\*     inProgress.has(nextId)) continue
AlreadyHandled(id, done, failed, running) ==
  id \in done \/ id \in failed \/ id \in running

\* mutant: the id pushed last is taken first
Pop(queue) == [next |-> queue[Len(queue)], rest |-> SubSeq(queue, 1, Len(queue) - 1)]

\* const nextId = readyQueue.shift()!
Shift(queue) == [next |-> Head(queue), rest |-> Tail(queue)]

\* startNext: the whole while loop.  It contains no await, so it runs to its
\* end before any worker continuation; s carries the state it updates.
StartNextOne(s) ==
  LET shifted == Shift(s.readyQueue)
      nextId == shifted.next
      rest == [s EXCEPT !.readyQueue = shifted.rest]
  IN IF \/ AlreadyHandled(nextId, completedTaskIds, failedTaskIds, s.inProgress)
        \/ nextId \notin TaskIdsOf(plan)
     THEN rest
     ELSE LET task == TaskOf(plan, nextId)
              failedDeps == SelectSeq(task.deps, LAMBDA d : d \in failedTaskIds)
          IN IF DepsMet(task, completedTaskIds, failedTaskIds)
             THEN [rest EXCEPT
                     !.inProgress = @ \cup {nextId},
                     !.updates[nextId] = Notify(@, "running"),
                     !.dispatched = Append(@, nextId),
                     !.worker[nextId] =
                        SyncPrefix(nextId, task.kind, task.key, cache, now)]
             ELSE IF failedDeps # <<>>
             THEN [rest EXCEPT
                     !.results[nextId] =
                        TaskResult(nextId, "skipped", NoPayload,
                          [msg |-> "Dependencies failed", ids |-> failedDeps],
                          now, now),
                     !.updates[nextId] = Notify(@, "skipped")]
             ELSE rest

RECURSIVE StartNext(_)
StartNext(s) ==
  IF HasCapacity(s.inProgress) /\ s.readyQueue # <<>>
  THEN Once(StartNextOne(s), LAMBDA x : StartNext(x))
  ELSE s

RunStartNext ==
  \E s \in {StartNext([readyQueue |-> readyQueue, inProgress |-> inProgress,
                       results |-> results, worker |-> worker,
                       updates |-> updates, dispatched |-> dispatched])} :
     /\ readyQueue' = s.readyQueue
     /\ inProgress' = s.inProgress
     /\ results' = s.results
     /\ worker' = s.worker
     /\ updates' = s.updates
     /\ dispatched' = s.dispatched

\* await startNext(): the initial wave
KickOff ==
  /\ pc = "wave"
  /\ RunStartNext
  /\ pc' = "sleep"
  /\ UNCHANGED <<resolveVars, sortVars, plannerVars, routeVars, enqueued, clientVars, backend, plan, sortedTasks, sortFailed, completedTaskIds, failedTaskIds,
                 depCount, dependents, toolCalls, cache, now>>

\* mutant: a dependent is pushed each time its count is decremented
ReleaseOneAlwaysPush(d, s) ==
  [depCount |-> [s.depCount EXCEPT ![d] = @ - 1],
   readyQueue |-> Append(s.readyQueue, d),
   enqueued |-> Append(s.enqueued, d)]

\* for (const depTaskId of deps): decrement, push on reaching zero
ReleaseOne(d, s) ==
  [depCount |-> [s.depCount EXCEPT ![d] = @ - 1],
   readyQueue |-> IF s.depCount[d] - 1 = 0 THEN Append(s.readyQueue, d)
                  ELSE s.readyQueue,
   enqueued |-> IF s.depCount[d] - 1 = 0 THEN Append(s.enqueued, d)
                ELSE s.enqueued]

RECURSIVE ReleaseDependents(_, _)
ReleaseDependents(ds, s) ==
  IF ds = <<>> THEN s
  ELSE Once(ReleaseOne(Head(ds), s), LAMBDA x : ReleaseDependents(Tail(ds), x))

\* mutant: every result that is not skipped counts as a success
SucceededUnlessSkipped(ret) == ret.status # "skipped"

\* if (result.status === 'completed')
Succeeded(ret) == ret.status = "completed"

\* the async worker of startNext after `await executeTask(...)`
Complete(t) ==
  /\ DriverSuspended
  /\ worker[t].pc = "returned"
  /\ LET ret == worker[t].ret
     IN IF ret.status = "rejected"
        THEN \* catch (error)
             /\ results' = [results EXCEPT ![t] =
                    TaskResult(t, "failed", NoPayload, ret.error, now, now)]
             /\ failedTaskIds' = failedTaskIds \cup {t}
             /\ updates' = [updates EXCEPT ![t] = Notify(@, "failed")]
             /\ UNCHANGED <<completedTaskIds, depCount, readyQueue, enqueued>>
        ELSE /\ results' = [results EXCEPT ![t] = ret]
             /\ updates' = [updates EXCEPT ![t] = Notify(@, ret.status)]
             /\ IF Succeeded(ret)
                THEN \E r \in {ReleaseDependents(dependents[t],
                                  [depCount |-> depCount, readyQueue |-> readyQueue,
                                   enqueued |-> enqueued])} :
                        /\ completedTaskIds' = completedTaskIds \cup {t}
                        /\ depCount' = r.depCount
                        /\ readyQueue' = r.readyQueue
                        /\ enqueued' = r.enqueued
                        /\ UNCHANGED failedTaskIds
                ELSE IF ret.status = "failed"
                THEN /\ failedTaskIds' = failedTaskIds \cup {t}
                     /\ UNCHANGED <<completedTaskIds, depCount, readyQueue, enqueued>>
                ELSE UNCHANGED <<completedTaskIds, failedTaskIds, depCount, readyQueue,
                                 enqueued>>
  /\ inProgress' = inProgress \ {t}
  /\ worker' = [worker EXCEPT ![t] = [IdleWorker EXCEPT !.pc = "finished"]]
  /\ UNCHANGED <<resolveVars, sortVars, plannerVars, routeVars, dispatched, clientVars, backend, plan, pc, sortedTasks, sortFailed, dependents, toolCalls, cache, now>>

\* mutant: the driver only waits for the ready queue to drain
LoopConditionQueueOnly(running, queue) == queue # <<>>

\* while (inProgress.size > 0 || readyQueue.length > 0)
LoopCondition(running, queue) == running # {} \/ queue # <<>>

\* mutant: the driver gives up as soon as some task has failed
PollStopsOnFailure ==
  /\ pc = "sleep"
  /\ IF LoopCondition(inProgress, readyQueue) /\ failedTaskIds = {}
     THEN /\ RunStartNext
          /\ pc' = "sleep"
     ELSE /\ pc' = "done"
          /\ UNCHANGED <<readyQueue, inProgress, results, worker, updates,
                         dispatched>>
  /\ UNCHANGED <<resolveVars, sortVars, plannerVars, routeVars, enqueued, clientVars, backend, plan, sortedTasks, sortFailed, completedTaskIds, failedTaskIds,
                 depCount, dependents, toolCalls, cache, now>>

\* the 25 ms timer of the driver fires: test the loop condition, then either
\* run startNext and sleep again, or return the result map
Poll ==
  /\ pc = "sleep"
  /\ IF LoopCondition(inProgress, readyQueue)
     THEN /\ RunStartNext
          /\ pc' = "sleep"
     ELSE /\ pc' = "done"
          /\ UNCHANGED <<readyQueue, inProgress, results, worker, updates,
                         dispatched>>
  /\ UNCHANGED <<resolveVars, sortVars, plannerVars, routeVars, enqueued, clientVars, backend, plan, sortedTasks, sortFailed, completedTaskIds, failedTaskIds,
                 depCount, dependents, toolCalls, cache, now>>

\* time passes while the driver and the workers are suspended
Tick ==
  /\ pc = "sleep"
  /\ now < MaxTime
  /\ now' = now + 1
  /\ UNCHANGED <<resolveVars, sortVars, plannerVars, routeVars, logVars, clientVars, backend, plan, pc, sortedTasks, sortFailed, schedVars, worker, toolCalls,
                 updates, cache>>

WorkerStep(t) ==
  \/ CacheGetReturn(t)
  \/ ToolSucceeds(t)
  \/ ToolThrows(t)
  \/ BackoffDone(t)
  \/ Complete(t)

Next ==
  \/ Setup
  \/ KickOff
  \/ Poll
  \/ \E t \in Ids : CacheGetReturn(t)
  \/ \E t \in Ids : ToolSucceeds(t)
  \/ \E t \in Ids : ToolThrows(t)
  \/ \E t \in Ids : BackoffDone(t)
  \/ \E t \in Ids : Complete(t)

Spec == Init /\ [][Next]_vars

\* the same program observed with a clock that advances
TimedPlans ==
  {Chain(n) : n \in 3..MaxChain} \cup {Diamond, DanglingMixed} \cup ShapePlans

TimedInit == Init /\ plan \in TimedPlans

TimedNext == Next \/ Tick

TimedSpec == TimedInit /\ [][TimedNext]_vars

\* the event loop runs every pending callback: the driver's timer fires, and
\* every tool call, cache lookup and backoff timer of a worker settles
Fairness ==
  /\ WF_vars(Setup \/ KickOff \/ Poll)
  /\ WF_vars(\E t \in Ids : WorkerStep(t))

FairSpec == Init /\ [][Next]_vars /\ Fairness

\* the same program with each of the cache backends, on the two-task plans
BackendInit ==
  /\ ClientUnused
  /\ RouteUnused
  /\ PlannerUnused /\ SortUnused /\ ResolveUnused
  /\ enqueued = <<>>
  /\ dispatched = <<>>
  /\ plan \in KindPlans
  /\ pc = "start"
  /\ sortedTasks = <<>>
  /\ sortFailed = FALSE
  /\ results = [t \in Ids |-> NoResult]
  /\ completedTaskIds = {}
  /\ failedTaskIds = {}
  /\ inProgress = {}
  /\ depCount = [t \in Ids |-> 0]
  /\ dependents = [t \in Ids |-> <<>>]
  /\ readyQueue = <<>>
  /\ worker = [t \in Ids |-> IdleWorker]
  /\ toolCalls = [t \in Ids |-> 0]
  /\ updates = [t \in Ids |-> <<>>]
  /\ cache \in [Keys -> {NoPayload, OldPayload}]
  /\ now = 0
  /\ backend \in Backends

BackendSpec == BackendInit /\ [][Next]_vars


(* --------------------------- cache client ------------------------------ *)
\* payloads and ttlMs arguments the caller passes to set
Values == {"v1", "v2"}
Ttls == {1000, DEFAULT_TTL_MS}
\* UPSTASH_REDIS_REST_URL and _TOKEN are set or not; import('@upstash/redis')
\* and new Redis(...) succeed or throw
Envs == {[configured |-> c, importOk |-> i] : c \in BOOLEAN, i \in BOOLEAN}
\* the instants the clock is observed at: around 0, one second, and the
\* multiples of the default TTL
Instants ==
  {a + 1000 * b + DEFAULT_TTL_MS * c : a \in 0..1, b \in 0..1, c \in 0..MaxDays}

\* mutant: an entry never counts as expired
ExpiredNever(age) == FALSE

\* if (Date.now() - entry.timestamp > DEFAULT_TTL_MS)
Expired(age) == age > DEFAULT_TTL_MS

\* InMemoryAgentCache.get of the cache instances[i]: [cc, entry]
MemGet(w, i, k, at) ==
  LET en == w.instances[i][k]
  IN IF en = NoEntry THEN [cc |-> w, entry |-> NoEntry]
     ELSE IF Expired(at - en.timestamp)
     THEN [cc |-> [w EXCEPT !.instances[i][k] = NoEntry], entry |-> NoEntry]
     ELSE [cc |-> w, entry |-> en]

\* InMemoryAgentCache.set: store { result, timestamp } and start the cleanup
\* timer, due after ttlMs + 1000
MemSet(w, i, k, v, ttl, at) ==
  [w EXCEPT !.instances[i][k] = Entry(v, at, ttl),
            !.timers = @ \cup {[inst |-> i, key |-> k, ttl |-> ttl,
                                due |-> at + ttl + 1000]}]

\* the remote store answers client.get(key): the value, unless the key has
\* passed the expiry it was set with
RemoteGet(w, k, at) ==
  LET en == w.remote[k]
  IN IF en # NoEntry /\ at < en.timestamp + en.ttl THEN en ELSE NoEntry

\* client.set(key, value, { ex: Math.floor(ttlMs / 1000) })
RemoteSet(w, k, v, ttl, at) ==
  [w EXCEPT !.remote[k] = Entry(v, at, (ttl \div 1000) * 1000)]

\* ensure(): the client made earlier, or a new one, or -- when the import or
\* the constructor throws -- null, after cacheInstance has been replaced by
\* a new InMemoryAgentCache: [cc, c]
Ensure(e, w) ==
  IF w.client # Null THEN [cc |-> w, c |-> w.client]
  ELSE IF e.importOk THEN [cc |-> [w EXCEPT !.client = "redis"], c |-> "redis"]
  ELSE [cc |-> [w EXCEPT !.instances = Append(@, NewStore),
                         !.cacheInstance = MemObj(Len(w.instances) + 1)],
        c |-> Null]

\* get(key) on the object h: the possible [cc, entry]
GetVia(h, e, w, k, at) ==
  IF h = ProxyObj
  THEN LET en == Ensure(e, w)
       IN IF en.c = Null
          THEN {MemGet(en.cc, en.cc.cacheInstance.n, k, at)}
          ELSE {[cc |-> en.cc, entry |-> RemoteGet(en.cc, k, at)],
                [cc |-> en.cc, entry |-> NoEntry]}      \* c.get threw
  ELSE {MemGet(w, h.n, k, at)}

\* set(key, result, ttlMs) on the object h: the possible cc
SetVia(h, e, w, k, v, ttl, at) ==
  IF h = ProxyObj
  THEN LET en == Ensure(e, w)
       IN IF en.c = Null
          THEN {MemSet(en.cc, en.cc.cacheInstance.n, k, v, ttl, at)}
          ELSE {RemoteSet(en.cc, k, v, ttl, at), en.cc}  \* c.set threw
  ELSE {MemSet(w, h.n, k, v, ttl, at)}

execVars == <<plan, pc, sortedTasks, sortFailed, schedVars, worker, toolCalls,
              updates, cache, now, backend, logVars>>

\* getAgentCache()
GetAgentCache ==
  /\ ops < MaxOps
  /\ ops' = ops + 1
  /\ IF cc.cacheInstance # NullObj
     THEN /\ handle' = cc.cacheInstance
          /\ UNCHANGED cc
     ELSE IF env.configured
     THEN /\ handle' = ProxyObj
          /\ cc' = [cc EXCEPT !.cacheInstance = ProxyObj]
     ELSE /\ handle' = MemObj(Len(cc.instances) + 1)
          /\ cc' = [cc EXCEPT !.instances = Append(@, NewStore),
                              !.cacheInstance = MemObj(Len(cc.instances) + 1)]
  /\ UNCHANGED <<resolveVars, sortVars, plannerVars, routeVars, execVars, env, clock, lastSet, lastOp, fp>>

\* await handle.get(k)
Get(k) ==
  /\ handle # NullObj
  /\ ops < MaxOps
  /\ ops' = ops + 1
  /\ \E out \in GetVia(handle, env, cc, k, clock) :
       /\ cc' = out.cc
       /\ lastOp' = [seq |-> ops + 1, op |-> "get", key |-> k, via |-> handle,
                     at |-> clock, entry |-> out.entry]
  /\ UNCHANGED <<resolveVars, sortVars, plannerVars, routeVars, execVars, env, clock, handle, lastSet, fp>>

\* await handle.set(k, v, ttl)
Set(k, v, ttl) ==
  /\ handle # NullObj
  /\ ops < MaxOps
  /\ ops' = ops + 1
  /\ cc' \in SetVia(handle, env, cc, k, v, ttl, clock)
  /\ lastSet' = [lastSet EXCEPT ![k] =
        [seq |-> ops + 1, value |-> v, at |-> clock, ttl |-> ttl, via |-> handle]]
  /\ lastOp' = [seq |-> ops + 1, op |-> "set", key |-> k, via |-> handle,
                at |-> clock, entry |-> NoEntry]
  /\ UNCHANGED <<resolveVars, sortVars, plannerVars, routeVars, execVars, env, clock, handle, fp>>

\* the callback of a cleanup timer started by set(k, _, ttl) on the i-th
\* in-memory cache runs, at or after its due time
CleanupTimer(i, k, ttl) ==
  /\ \E tm \in cc.timers :
       /\ tm.inst = i /\ tm.key = k /\ tm.ttl = ttl
       /\ clock >= tm.due
       /\ LET en == cc.instances[i][k]
          IN cc' = [cc EXCEPT
                      !.timers = @ \ {tm},
                      !.instances[i][k] =
                         IF en # NoEntry /\ clock - en.timestamp > ttl
                         THEN NoEntry ELSE en]
  /\ UNCHANGED <<resolveVars, sortVars, plannerVars, routeVars, execVars, env, clock, handle, lastSet, lastOp, ops, fp>>

\* time passes
Advance ==
  /\ \E t \in Instants : t > clock /\ clock' = t
  /\ UNCHANGED <<resolveVars, sortVars, plannerVars, routeVars, execVars, env, cc, handle, lastSet, lastOp, ops, fp>>

\* executePlan is not running
ExecutorUnused ==
  /\ plan = <<>>
  /\ pc = "start"
  /\ sortedTasks = <<>>
  /\ sortFailed = FALSE
  /\ results = [t \in Ids |-> NoResult]
  /\ completedTaskIds = {}
  /\ failedTaskIds = {}
  /\ inProgress = {}
  /\ depCount = [t \in Ids |-> 0]
  /\ dependents = [t \in Ids |-> <<>>]
  /\ readyQueue = <<>>
  /\ worker = [t \in Ids |-> IdleWorker]
  /\ toolCalls = [t \in Ids |-> 0]
  /\ updates = [t \in Ids |-> <<>>]
  /\ cache = EmptyStore
  /\ now = 0
  /\ backend = "memory"
  /\ enqueued = <<>>
  /\ dispatched = <<>>

CacheInit ==
  /\ ExecutorUnused
  /\ RouteUnused
  /\ PlannerUnused /\ SortUnused /\ ResolveUnused
  /\ env \in Envs
  /\ cc = NewProcess
  /\ clock = 0
  /\ handle = NullObj
  /\ lastSet = [k \in Keys |-> NoSet]
  /\ lastOp = NoOp
  /\ ops = 0
  /\ fp = <<NoFingerprint, NoFingerprint>>

CacheNext ==
  \/ GetAgentCache
  \/ \E k \in Keys : Get(k)
  \/ \E k \in Keys, v \in Values, ttl \in Ttls : Set(k, v, ttl)
  \/ \E i \in 1..MaxOps, k \in Keys, ttl \in Ttls : CleanupTimer(i, k, ttl)
  \/ Advance

CacheSpec == CacheInit /\ [][CacheNext]_vars

(* ---------------------------- generateKey ------------------------------ *)
\* strings are sequences of UTF-16 code units
Quote == <<34>>
Colon == <<58>>
Comma == <<44>>
LBrace == <<123>>
RBrace == <<125>>

\* JavaScript values: a string, undefined, or an object, which is the
\* sequence of its [k, v] members in insertion order
Str(chars) == [t |-> "string", s |-> chars, m |-> <<>>]
Undefined == [t |-> "undefined", s |-> <<>>, m |-> <<>>]
Obj(members) == [t |-> "object", s |-> <<>>, m |-> members]
Member(name, value) == [k |-> name, v |-> value]

\* property names a and b (c inside nested objects); the values x and y
PartNames == {<<97>>, <<98>>}
Scalars == {Str(<<120>>), Str(<<121>>)}
PartValues ==
  Scalars \cup {Undefined}
    \cup {Obj(<<Member(<<99>>, v)>>) : v \in Scalars}
    \cup {Obj(<<Member(<<97>>, Str(<<120>>))>>)}

\* the argument maps: every insertion order of every set of names
PartMaps ==
  {m \in UNION {[1..n -> [k : PartNames, v : PartValues]] :
                   n \in 0..Cardinality(PartNames)} :
     \A i \in 1..Len(m) : \A j \in 1..Len(m) : i # j => m[i].k # m[j].k}

\* Object.keys(parts)
ObjectKeys(members) == [i \in 1..Len(members) |-> members[i].k]

\* a < b for strings, by code units
RECURSIVE StrLess(_, _)
StrLess(a, b) ==
  IF b = <<>> THEN FALSE
  ELSE IF a = <<>> THEN TRUE
  ELSE IF Head(a) # Head(b) THEN Head(a) < Head(b)
  ELSE StrLess(Tail(a), Tail(b))

RECURSIVE InsertSorted(_, _)
InsertSorted(sorted, x) ==
  IF sorted = <<>> THEN <<x>>
  ELSE IF StrLess(x, Head(sorted)) THEN <<x>> \o sorted
  ELSE <<Head(sorted)>> \o InsertSorted(Tail(sorted), x)

\* Array.prototype.sort() without a comparator
RECURSIVE SortKeys(_)
SortKeys(names) ==
  IF names = <<>> THEN <<>>
  ELSE InsertSorted(SortKeys(Tail(names)), Head(names))

HasMember(members, name) == \E i \in 1..Len(members) : members[i].k = name
MemberValue(members, name) ==
  members[CHOOSE i \in 1..Len(members) : members[i].k = name].v

\* JSON.stringify(value, allow) with an array as replacer: of every object,
\* nested ones included, only the properties named in the array are written,
\* in the order of the array; a property whose value is undefined is left out
RECURSIVE Stringify(_, _)
RECURSIVE StringifyMembers(_, _, _)
Stringify(value, allow) ==
  IF value.t = "string" THEN Quote \o value.s \o Quote
  ELSE LBrace \o StringifyMembers(value.m, allow, allow) \o RBrace
StringifyMembers(members, names, allow) ==
  IF names = <<>> THEN <<>>
  ELSE LET rest == StringifyMembers(members, Tail(names), allow)
           name == Head(names)
       IN IF HasMember(members, name) /\ MemberValue(members, name) # Undefined
          THEN Quote \o name \o Quote \o Colon
                 \o Stringify(MemberValue(members, name), allow)
                 \o (IF rest = <<>> THEN <<>> ELSE Comma \o rest)
          ELSE rest

\* JSON.stringify(parts, Object.keys(parts).sort())
Normalize(parts) == Stringify(Obj(parts), SortKeys(ObjectKeys(parts)))

\* bitwise xor of two non-negative integers
RECURSIVE Xor(_, _)
Xor(a, b) ==
  IF a = 0 THEN b
  ELSE IF b = 0 THEN a
  ELSE (((a % 2) + (b % 2)) % 2) + 2 * Xor(a \div 2, b \div 2)

\* a 32-bit hash is kept as its two 16-bit halves
Word(hi, lo) == [hi |-> hi, lo |-> lo]

\* (h << k) as an unsigned 32-bit word, 0 <= k < 32
Shl(h, k) ==
  IF k >= 16 THEN Word((h.lo * 2^(k - 16)) % 65536, 0)
  ELSE Word((h.hi * 2^k + (h.lo * 2^k) \div 65536) % 65536, (h.lo * 2^k) % 65536)

\* a + b in 32 bits: the sums of the loop body stay below 2^53, and the next
\* ^= (or the final >>> 0) keeps their low 32 bits
Add32(a, b) ==
  Word((a.hi + b.hi + (a.lo + b.lo) \div 65536) % 65536, (a.lo + b.lo) % 65536)

\* mutant: the shift by 24 is left out
FnvShiftsShort == <<1, 4, 7, 8>>
\* the shifts of hash += (hash << 1) + (hash << 4) + (hash << 7)
\*                        + (hash << 8) + (hash << 24)
FnvShifts == <<1, 4, 7, 8, 24>>

RECURSIVE AddShifts(_, _, _)
AddShifts(sum, h, shifts) ==
  IF shifts = <<>> THEN sum
  ELSE Once(Add32(sum, Shl(h, Head(shifts))),
            LAMBDA x : AddShifts(x, h, Tail(shifts)))

\* one round of the loop: hash ^= input.charCodeAt(i); hash += ...
FnvStep(h, code) ==
  Once(Word(h.hi, Xor(h.lo, code)), LAMBDA x : AddShifts(x, x, FnvShifts))

RECURSIVE FnvFold(_, _)
FnvFold(h, input) ==
  IF input = <<>> THEN h
  ELSE Once(FnvStep(h, Head(input)), LAMBDA x : FnvFold(x, Tail(input)))

\* the characters '0'..'9', 'a'..'f' that toString(16) writes
HexChars == <<48, 49, 50, 51, 52, 53, 54, 55, 56, 57, 97, 98, 99, 100, 101, 102>>

\* (n).toString(16).padStart(4, '0'), for a 16-bit n
Hex4(n) ==
  <<HexChars[(n \div 4096) + 1], HexChars[((n \div 256) % 16) + 1],
    HexChars[((n \div 16) % 16) + 1], HexChars[(n % 16) + 1]>>

\* fnv1aHash: from the offset basis 0x811c9dc5, the 8 hexadecimal digits of
\* hash >>> 0
fnv1aHash(input) ==
  LET h == FnvFold(Word(33052, 40389), input)
  IN Hex4(h.hi) \o Hex4(h.lo)

\* generateKey of InMemoryAgentCache (58-61), of UpstashRedisAgentCache
\* (96-99) and of the lazy proxy (151-154)
generateKeyOf(b, parts) ==
  CASE b = "memory" -> fnv1aHash(Stringify(Obj(parts), SortKeys(ObjectKeys(parts))))
    [] b = "redis" -> fnv1aHash(Stringify(Obj(parts), SortKeys(ObjectKeys(parts))))
    [] OTHER -> fnv1aHash(Stringify(Obj(parts), SortKeys(ObjectKeys(parts))))

generateKey(parts) == fnv1aHash(Normalize(parts))

Fingerprint(parts) ==
  [parts |-> parts, normalized |-> Normalize(parts), key |-> generateKey(parts)]

\* generateKey is called on two argument maps
GenerateKeys(p, q) ==
  /\ fp = <<NoFingerprint, NoFingerprint>>
  /\ fp' = <<Fingerprint(p), Fingerprint(q)>>
  /\ UNCHANGED <<resolveVars, sortVars, plannerVars, routeVars, execVars, env, cc, clock, handle, lastSet, lastOp, ops>>

KeyInit == ExecutorUnused /\ ClientUnused /\ RouteUnused /\ PlannerUnused /\ SortUnused /\ ResolveUnused

KeyNext == \E p \in PartMaps, q \in PartMaps : GenerateKeys(p, q)

KeySpec == KeyInit /\ [][KeyNext]_vars

(* ------------------------------ route ---------------------------------- *)
\* what a request carries: a goal, a body without a goal, or a body that
\* req.json() cannot parse
Bodies == {"goal", "noGoal", "badJson"}

\* mutant: the limit is reached one call later
LimitReachedLate(count) == count > RATE_LIMIT_MAX_REQUESTS

\* if (entry.count >= RATE_LIMIT_MAX_REQUESTS)
LimitReached(count) == count >= RATE_LIMIT_MAX_REQUESTS

\* if (!entry || now > entry.resetAt)
WindowOver(entry, at) == entry = NoRateEntry \/ at > entry.resetAt

\* mutant: a refused call is counted too
StoreWithRefusalCounted(store, identifier) ==
  [store EXCEPT ![identifier].count = @ + 1]

\* the refusing branch (33-39) returns without touching rateLimitStore
StoreOnRefusal(store, identifier) == store

\* rateLimit(identifier) at the instant `at`: [store, allowed, remaining, resetAt]
rateLimit(store, identifier, at) ==
  LET entry == store[identifier]
  IN IF WindowOver(entry, at)
     THEN LET newEntry == RateLimitEntry(1, at + RATE_LIMIT_WINDOW)
              withNew == [store EXCEPT ![identifier] = newEntry]
          IN [store |-> [c \in Clients |->
                           IF withNew[c] # NoRateEntry /\ at > withNew[c].resetAt
                           THEN NoRateEntry ELSE withNew[c]],
              allowed |-> TRUE,
              remaining |-> RATE_LIMIT_MAX_REQUESTS - 1,
              resetAt |-> newEntry.resetAt]
     ELSE IF LimitReached(entry.count)
     THEN [store |-> StoreOnRefusal(store, identifier), allowed |-> FALSE,
           remaining |-> 0, resetAt |-> entry.resetAt]
     ELSE [store |-> [store EXCEPT ![identifier].count = @ + 1],
           allowed |-> TRUE,
           remaining |-> RATE_LIMIT_MAX_REQUESTS - (entry.count + 1),
           resetAt |-> entry.resetAt]

\* Math.ceil(ms / 1000), for ms >= 0
CeilSeconds(ms) == (ms + 999) \div 1000

\* POST(req) up to the Response it returns
Post(c, body) ==
  /\ posts < MaxPosts
  /\ posts' = posts + 1
  /\ LET r == rateLimit(rateLimitStore, c, clock)
         answer == [client |-> c, at |-> clock, allowed |-> r.allowed,
                    remaining |-> r.remaining, resetAt |-> r.resetAt,
                    status |-> 0, retryAfter |-> -1, planned |-> FALSE]
     IN /\ rateLimitStore' = r.store
        /\ granted' = IF r.allowed THEN [granted EXCEPT ![c][clock] = @ + 1]
                      ELSE granted
        /\ response' =
             IF ~r.allowed
             THEN [answer EXCEPT !.status = 429,
                                 !.retryAfter = CeilSeconds(r.resetAt - clock)]
             ELSE IF body = "badJson" THEN [answer EXCEPT !.status = 500]
             ELSE IF body = "noGoal" THEN [answer EXCEPT !.status = 400]
             ELSE [answer EXCEPT !.status = 200, !.planned = TRUE]
  /\ UNCHANGED <<resolveVars, sortVars, plannerVars, execVars, env, cc, clock, handle, lastSet, lastOp,
                 ops, fp, sse>>

\* time passes between two requests
RateAdvance ==
  /\ \E t \in RateInstants : t > clock /\ clock' = t
  /\ UNCHANGED <<resolveVars, sortVars, plannerVars, routeVars, execVars, env, cc, handle, lastSet, lastOp, ops, fp>>

RateInit == ExecutorUnused /\ ClientUnused /\ RouteUnused /\ PlannerUnused /\ SortUnused /\ ResolveUnused

RateNext ==
  \/ \E c \in Clients, body \in Bodies : Post(c, body)
  \/ RateAdvance

RateSpec == RateInit /\ [][RateNext]_vars

(* ------------------------ the event stream ----------------------------- *)
\* the plans generatePlan resolves with: task-1 .. task-n
StreamPlans == {[i \in 1..n |-> i] : n \in 1..MaxStreamTasks}

\* safeEnqueue through send (47-58): nothing when the flag is set; an
\* enqueue on a stream its consumer has cancelled throws, which sets the flag
send(s, event) ==
  IF s.closed THEN s
  ELSE IF s.consumer = "cancelled" THEN [s EXCEPT !.closed = TRUE]
  ELSE [s EXCEPT !.events = Append(@, event)]

RECURSIVE sendAll(_, _)
sendAll(s, events) ==
  IF events = <<>> THEN s
  ELSE Once(send(s, Head(events)), LAMBDA x : sendAll(x, Tail(events)))

\* closed = true; controller.close()
CloseStream(s) == [s EXCEPT !.closed = TRUE, !.closeCalled = TRUE]

\* lines 151-158: the catch of start
CatchError(s) ==
  IF ~s.closed THEN CloseStream(send(s, ErrorEvent)) ELSE s

\* an update passed to the callback: the status, and whether its error
\* includes 'Retrying'
Update(t, status, retrying) == [taskId |-> t, status |-> status, retrying |-> retrying]

\* updates.filter(u => u.taskId === task.id)
UpdatesFor(log, t) == SelectSeq(log, LAMBDA u : u.taskId = t)

\* lastUpdate?.status
LastStatus(log, t) ==
  LET own == UpdatesFor(log, t)
  IN IF own = <<>> THEN "none" ELSE own[Len(own)].status

\* executionResultsMap.get(task.id)?.status: executePlan stores the result
\* of a task just before it passes the terminal update of the task
ResultStatus(log, t) ==
  IF LastStatus(log, t) \in {"completed", "failed"} THEN LastStatus(log, t)
  ELSE "none"

\* mutant: no default for a task without result and update
FinalStatusNoDefault(resultStatus, lastStatus) ==
  IF resultStatus # "none" THEN resultStatus ELSE lastStatus

\* taskResult?.status || lastUpdate?.status || 'unknown'
FinalStatus(resultStatus, lastStatus) ==
  IF resultStatus # "none" THEN resultStatus
  ELSE IF lastStatus # "none" THEN lastStatus
  ELSE "unknown"

\* plan.tasks.map(...) of lines 114-131
TaskResults(tasks, log) ==
  [i \in 1..Len(tasks) |->
     [taskId |-> tasks[i],
      status |-> FinalStatus(ResultStatus(log, tasks[i]),
                             LastStatus(log, tasks[i]))]]

\* start(controller) up to `await generatePlan(goal)`
StreamStart ==
  /\ sse.pc = "start"
  /\ sse' = [send(sse, StatusEvent("planning")) EXCEPT !.pc = "planning"]
  /\ UNCHANGED <<resolveVars, sortVars, plannerVars, execVars, clientVars, limiterVars>>

\* generatePlan resolves: lines 63-76, up to the call of executePlan
PlanResolves(tasks) ==
  /\ sse.pc = "planning"
  /\ sse' = [sendAll(sse, <<PlanEvent, StatusEvent("executing")>>)
               EXCEPT !.pc = "executing", !.tasks = tasks]
  /\ UNCHANGED <<resolveVars, sortVars, plannerVars, execVars, clientVars, limiterVars>>

\* generatePlan rejects: the catch of start
PlanRejects ==
  /\ sse.pc = "planning"
  /\ sse' = [CatchError(sse) EXCEPT !.pc = "done"]
  /\ UNCHANGED <<resolveVars, sortVars, plannerVars, execVars, clientVars, limiterVars>>

\* the updates executePlan makes for one task: `running`, then at most two
\* retry announcements, then `completed` or `failed`
MayFollow(last, retries, status, retrying) ==
  IF last = "none" THEN status = "running" /\ ~retrying
  ELSE /\ last = "running"
       /\ \/ status = "running" /\ retrying /\ retries < MAX_ATTEMPTS - 1
          \/ status \in {"completed", "failed"} /\ ~retrying

\* the callback given to executePlan (76-104)
OnUpdate(t, status, retrying) ==
  /\ sse.pc = "executing"
  /\ t \in Range(sse.tasks)
  /\ MayFollow(LastStatus(sse.updates, t),
               Len(SelectSeq(UpdatesFor(sse.updates, t), LAMBDA u : u.retrying)),
               status, retrying)
  /\ sse' =
       [sendAll(sse,
          (IF retrying THEN <<StatusEvent("executing")>> ELSE <<>>)
            \o <<TaskUpdateEvent(t, status)>>
            \o (IF status \in {"completed", "failed"}
                THEN <<StatusEvent("executing")>> ELSE <<>>))
        EXCEPT !.updates = Append(@, Update(t, status, retrying))]
  /\ UNCHANGED <<resolveVars, sortVars, plannerVars, execVars, clientVars, limiterVars>>

\* executePlan resolves, when no task is in flight: lines 106-150, and the
\* catch when generateFinalSummary throws
ExecuteReturns(summaryThrows) ==
  /\ sse.pc = "executing"
  /\ \A t \in Range(sse.tasks) : LastStatus(sse.updates, t) # "running"
  /\ LET summarizing == send(sse, StatusEvent("summarizing"))
     IN sse' =
          [(IF summaryThrows THEN CatchError(summarizing)
            ELSE Once(send(summarizing,
                           CompleteEvent(TaskResults(sse.tasks, sse.updates))),
                      LAMBDA x : IF ~x.closed THEN CloseStream(x) ELSE x))
           EXCEPT !.pc = "done"]
  /\ UNCHANGED <<resolveVars, sortVars, plannerVars, execVars, clientVars, limiterVars>>

\* the reader of the response goes away
ConsumerCancels ==
  /\ sse.pc \in {"planning", "executing"}
  /\ sse.consumer = "reading"
  /\ sse' = [sse EXCEPT !.consumer = "cancelled"]
  /\ UNCHANGED <<resolveVars, sortVars, plannerVars, execVars, clientVars, limiterVars>>

StreamInit ==
  /\ ExecutorUnused /\ ClientUnused /\ PlannerUnused /\ SortUnused /\ ResolveUnused
  /\ LimiterUnused
  /\ sse = NewStream

StreamNext ==
  \/ StreamStart
  \/ \E tasks \in StreamPlans : PlanResolves(tasks)
  \/ PlanRejects
  \/ \E t \in 1..MaxStreamTasks, status \in {"running", "completed", "failed"},
        retrying \in BOOLEAN :
        OnUpdate(t, status, retrying)
  \/ \E summaryThrows \in BOOLEAN : ExecuteReturns(summaryThrows)
  \/ ConsumerCancels

StreamSpec == StreamInit /\ [][StreamNext]_vars

(* ------------------------------ planner -------------------------------- *)
maxRetries == 0
maxPlanningTime == 8000

\* the goals, by the keywords the fallbacks look for: weather; fahrenheit or
\* convert; activity; stock or share; sum with first/even/odd ("series"), or
\* another of sum/calculate/math ("simple"); research, find, search or top
Goals ==
  {Goal(w, c, a, st, m, r) : w \in BOOLEAN, c \in BOOLEAN, a \in BOOLEAN,
      st \in BOOLEAN, m \in {"none", "series", "simple"}, r \in BOOLEAN}

\* the tasks of an object that passed planSchema, as they are after the
\* repair of their description (lines 114-171): ids and dependencies match
\* /^task-\d+$/
LlmIds == 1..MaxLlmTasks
LlmTools ==
  {[tool |-> "api", temp |-> FALSE], [tool |-> "calculator", temp |-> TRUE],
   [tool |-> "calculator", temp |-> FALSE], [tool |-> "web_search", temp |-> FALSE]}
LlmTasks ==
  {PlanTask(i, k.tool, k.temp, d) :
      i \in LlmIds, k \in LlmTools, d \in SeqsUpTo(LlmIds, 1)}
\* generateObject resolves with an object, rejects (network or API error,
\* or output that fails planSchema), or loses the race against the timer
LlmFailures ==
  {[kind |-> k, tasks |-> <<>>] : k \in {"throws", "invalid", "timeout"}}
LlmObject(tasks) == [kind |-> "object", tasks |-> tasks]

\* the calls of generatePlan: every goal with every failure and with an empty
\* task list; every non-empty task list with the two kinds of goal its
\* sanitization tells apart
Requests ==
  {[goal |-> g, llm |-> l, elapsed |-> e] :
      g \in Goals, l \in LlmFailures \cup {LlmObject(<<>>)},
      e \in {0, maxPlanningTime + 1}}
    \cup
  {[goal |-> [NoGoal EXCEPT !.weather = w], llm |-> LlmObject(tasks), elapsed |-> 0] :
      w \in BOOLEAN, tasks \in SeqsUpTo(LlmTasks, MaxLlmTasks) \ {<<>>}}

\* mutant: a dependency on the task itself is kept
IsSelfDependencyNever(dep, id) == FALSE

\* if (depTrimmed === taskId) / if (dep === task.id)
IsSelfDependency(dep, id) == dep = id

\* lines 104-210: the ids keep their format, self-dependencies are removed
SanitizeTasks(tasks) ==
  [i \in 1..Len(tasks) |->
     [tasks[i] EXCEPT !.deps = SelectSeq(@, LAMBDA dep : ~IsSelfDependency(dep, tasks[i].id))]]

\* lines 218-258: a weather goal without an api task gets one as task-1; the
\* other tasks and their dependencies are renumbered
AddWeatherTask(tasks) ==
  LET hasCalculatorForWeather ==
        \E i \in 1..Len(tasks) : tasks[i].tool = "calculator" /\ tasks[i].temp
      renumbered ==
        [i \in 1..Len(tasks) |->
           [tasks[i] EXCEPT !.id = i + 1,
                            !.deps = [j \in 1..Len(@) |-> @[j] + 1]]]
      withWeather == <<PlanTask(1, "api", FALSE, <<>>)>> \o renumbered
  IN IF hasCalculatorForWeather
     THEN [i \in 1..Len(withWeather) |->
             LET t == withWeather[i]
             IN IF t.tool = "calculator" /\ t.temp /\ 1 \notin Range(t.deps)
                THEN [t EXCEPT !.deps = <<1>> \o @]
                ELSE t]
     ELSE withWeather

\* lines 260-275: api tasks of a goal that is not about weather become searches
ConvertApiTasks(tasks) ==
  [i \in 1..Len(tasks) |->
     IF tasks[i].tool = "api" THEN [tasks[i] EXCEPT !.tool = "web_search"]
     ELSE tasks[i]]

\* lines 277-290: tasks[i].id = `task-${i + 1}`
RenumberIds(tasks) == [i \in 1..Len(tasks) |-> [tasks[i] EXCEPT !.id = i]]

\* lines 292-327: dependencies on ids that no task has, and on the task
\* itself, are removed
FilterDependencies(tasks) ==
  LET validTaskIds == {tasks[i].id : i \in 1..Len(tasks)}
  IN [i \in 1..Len(tasks) |->
        [tasks[i] EXCEPT !.deps =
           SelectSeq(@, LAMBDA dep :
              dep \in validTaskIds /\ ~IsSelfDependency(dep, tasks[i].id))]]

\* lines 104-327, for the object of the LLM
Sanitize(goal, tasks) ==
  LET step1 == SanitizeTasks(tasks)
      hasWeatherAPI == \E i \in 1..Len(step1) : step1[i].tool = "api"
      step2 == IF goal.weather /\ ~hasWeatherAPI THEN AddWeatherTask(step1) ELSE step1
      step3 == IF ~goal.weather THEN ConvertApiTasks(step2) ELSE step2
  IN FilterDependencies(RenumberIds(step3))

\* the tasks both fallbacks build for a weather goal
WeatherFallback(goal) ==
  LET first == <<PlanTask(1, "api", FALSE, <<>>)>>
      second == IF goal.convert
                THEN Append(first, PlanTask(2, "calculator", TRUE, <<1>>))
                ELSE first
  IN IF goal.activity
     THEN Append(second,
                 PlanTask(IF Len(second) > 1 THEN 3 ELSE 2, "web_search", FALSE,
                          IF Len(second) > 1 THEN <<2>> ELSE <<1>>))
     ELSE second

\* lines 386-497: the fallback plan built in the catch
FallbackTasks(goal) ==
  IF goal.weather THEN WeatherFallback(goal)
  ELSE IF goal.stock THEN <<PlanTask(1, "stock", FALSE, <<>>)>>
  ELSE IF goal.math = "series"
  THEN <<PlanTask(1, "calculator", FALSE, <<>>), PlanTask(2, "calculator", FALSE, <<1>>)>>
  ELSE IF goal.math = "simple" THEN <<PlanTask(1, "calculator", FALSE, <<>>)>>
  ELSE <<PlanTask(1, "web_search", FALSE, <<>>)>>

Returned(tasks) == [status |-> "returned", tasks |-> tasks]
Rejects == [status |-> "rejected", tasks |-> <<>>]

\* lines 513-567: the final fallback, or the rejection
FinalFallback(goal) ==
  IF goal.weather THEN Returned(WeatherFallback(goal))
  ELSE IF goal.research THEN Returned(<<PlanTask(1, "web_search", FALSE, <<>>)>>)
  ELSE Rejects

\* mutant: the catch never builds its fallback plan
AttemptsExhaustedNever(attempt) == FALSE

\* attempt === maxRetries, in the catch of the only iteration (the other
\* two disjuncts of line 384 add nothing to it)
AttemptsExhausted(attempt) == attempt = maxRetries

\* lines 363-510: the catch of attempt 0
CatchBlock(goal) ==
  IF AttemptsExhausted(0) /\ Len(FallbackTasks(goal)) > 0
  THEN Returned(FallbackTasks(goal))
  ELSE FinalFallback(goal)

\* if (Date.now() - startTime > maxPlanningTime) break, at the head of the loop
BudgetSpent(elapsed) == elapsed > maxPlanningTime

\* what the promise of generatePlan(userGoal) settles with
generatePlan(req) ==
  IF BudgetSpent(req.elapsed)
  THEN FinalFallback(req.goal)
  ELSE IF req.llm.kind = "object"
  THEN Once(Sanitize(req.goal, req.llm.tasks), LAMBDA tasks :
         IF Len(tasks) = 0 THEN CatchBlock(req.goal)   \* 'No valid tasks ...'
         ELSE Returned(tasks))
  ELSE CatchBlock(req.goal)

GeneratePlan ==
  /\ generated = NotGenerated
  /\ generated' = generatePlan(request)
  /\ UNCHANGED <<resolveVars, sortVars, request, routeVars, execVars, clientVars>>

PlanInit ==
  /\ ExecutorUnused
  /\ ClientUnused
  /\ RouteUnused
  /\ SortUnused
  /\ ResolveUnused
  /\ request \in Requests
  /\ generated = NotGenerated

PlanNext == GeneratePlan

PlanSpec == PlanInit /\ [][PlanNext]_vars

(* --------------------- topologicalSort on its own ---------------------- *)
\* dependency lists: ids in ascending order, repeats allowed; task-0 is an
\* id no task has
SortDepLists ==
  {d \in SeqsUpTo(0..MaxTasks, MaxDeps) : \A i \in 1..(Len(d) - 1) : d[i] <= d[i + 1]}

\* task ids by position: task-1..task-n, or with the last task listed under
\* the id of the first
SortIdLists(n) == {[i \in 1..n |-> i], [i \in 1..n |-> IF i = n THEN 1 ELSE i]}

\* the task list with the given ids and dependency lists, by position
SortInput(ids, deps) == [i \in 1..Len(ids) |-> Task(ids[i], deps[i])]

\* what the caller observes of topologicalSort(tasks)
SortResult(r) ==
  [called |-> TRUE, ok |-> r.ok, order |-> r.order, involved |-> r.involved,
   cyclePath |-> r.cyclePath]

TopologicalSort ==
  /\ ~sortOutcome.called
  /\ sortOutcome' = SortResult(topologicalSort(sortInput))
  /\ UNCHANGED <<resolveVars, sortInput, plannerVars, routeVars, execVars, clientVars>>

SortInit ==
  /\ ExecutorUnused
  /\ ClientUnused
  /\ RouteUnused
  /\ PlannerUnused
  /\ ResolveUnused
  /\ \E n \in 1..MaxTasks :
     \E ids \in SortIdLists(n) :
     \E deps \in [1..n -> SortDepLists] : sortInput = SortInput(ids, deps)
  /\ sortOutcome = NotSorted

SortNext == TopologicalSort

SortSpec == SortInit /\ [][SortNext]_vars

(* ------------------------ parameter resolution ------------------------- *)
\* The part of executeTask that resolves params.query of a web_search task.
\* A description is 'search for: ' followed by its body, a sequence of words
\* and placeholders; the results in the map are those of calculator tasks
\* ({expression, result}) and of weather tasks ({endpoint, data}), for which
\* parseSearchResultsForEntities returns no entity.
Placeholders == {"[result]", "[temp]", "[temp_f]"}
Words == {"news"}
Descriptions == UNION {[1..n -> Words \cup Placeholders] : n \in 1..MaxTokens}

CalcPayload(n) == [tool |-> "calculator", result |-> n, city |-> "", temperature |-> 0]
WeatherPayload(city, t) == [tool |-> "api", result |-> 0, city |-> city, temperature |-> t]
NoToolPayload == [tool |-> "none", result |-> 0, city |-> "", temperature |-> 0]

\* an entry of the result map: results.set(task.id, result)
ResultEntry(id, status, payload) == [id |-> id, status |-> status, payload |-> payload]

\* if (depResult.status === 'completed' && depResult.result)
Usable(entry) == entry.status = "completed" /\ entry.payload # NoToolPayload

\* extractNumericValue, for the two payload shapes: result.result of a
\* calculator result, result.data.temperature of a weather result
extractNumericValue(payload) ==
  IF payload.tool = "calculator" THEN payload.result ELSE payload.temperature

\* String.prototype.replace with a global pattern, token by token
ReplaceAll(text, placeholder, by) ==
  [i \in 1..Len(text) |-> IF text[i] = placeholder THEN by ELSE text[i]]

\* replacePlaceholders: the first usable entry of the map that yields a number
\* replaces the value placeholders ([result] among them), then break
RECURSIVE replacePlaceholders(_, _)
replacePlaceholders(text, dependencies) ==
  IF "[result]" \notin Range(text) \/ dependencies = <<>> THEN text
  ELSE IF Usable(Head(dependencies))
  THEN ReplaceAll(text, "[result]",
                  ToString(extractNumericValue(Head(dependencies).payload)))
  ELSE replacePlaceholders(text, Tail(dependencies))

\* one pass of the loop at 286-345 for a usable entry; convertsTemp: the
\* description of the task that owns the entry includes 'temp'
ReplaceFromEntry(query, entry, convertsTemp) ==
  IF entry.payload.tool = "calculator"
  THEN LET calcResult == ToString(entry.payload.result)
           q1 == IF convertsTemp
                 THEN ReplaceAll(ReplaceAll(query, "[temp_f]", calcResult),
                                 "[temp]", calcResult)
                 ELSE query
       IN ReplaceAll(q1, "[result]", calcResult)
  ELSE ReplaceAll(query, "[temp]", ToString(entry.payload.temperature))

\* dependencies.entries(): every entry of the map executePlan passes, which
\* is its whole result map
EntriesRead(task, dependencies) == dependencies

RECURSIVE ReplaceFromEntries(_, _, _)
ReplaceFromEntries(query, entries, taskMap) ==
  IF entries = <<>> THEN query
  ELSE ReplaceFromEntries(
         IF Usable(Head(entries))
         THEN ReplaceFromEntry(query, Head(entries), taskMap[Head(entries).id])
         ELSE query,
         Tail(entries), taskMap)

\* dependencies.get(depId)
RECURSIVE GetEntry(_, _)
GetEntry(dependencies, depId) ==
  IF dependencies = <<>> THEN ResultEntry(depId, "absent", NoToolPayload)
  ELSE IF Head(dependencies).id = depId THEN Head(dependencies)
  ELSE GetEntry(Tail(dependencies), depId)

\* lines 134-151: the first declared dependency that completed with weather
\* data sets the query from the description and that data
RECURSIVE QueryFromDeclared(_, _, _)
QueryFromDeclared(task, deps, dependencies) ==
  IF deps = <<>> THEN <<>>
  ELSE LET depResult == GetEntry(dependencies, Head(deps))
       IN IF depResult.status = "completed" /\ depResult.payload.tool = "api"
          THEN task.body \o <<"in", depResult.payload.city,
                               ToString(depResult.payload.temperature)>>
          ELSE QueryFromDeclared(task, Tail(deps), dependencies)

\* params.query as executeTask resolves it for a web_search task
ResolveQuery(task, dependencies, taskMap) ==
  IF task.given # <<>> THEN task.given          \* { ...task.parameters }
  ELSE LET fromDeclared == QueryFromDeclared(task, task.deps, dependencies)
       IN IF fromDeclared # <<>> THEN fromDeclared
          ELSE LET q == replacePlaceholders(task.body, EntriesRead(task, dependencies))
               IN IF Range(q) \cap Placeholders # {}
                  THEN ReplaceFromEntries(q, EntriesRead(task, dependencies), taskMap)
                  ELSE q

\* task-3 is the web_search task; task-1 and task-2 are a calculator or a
\* weather task each
SearchTasks ==
  {[id |-> 3, given |-> g, body |-> b, deps |-> d] :
      g \in {<<>>, <<"news">>}, b \in Descriptions, d \in {<<>>, <<1>>}}
OwnPayloads(id) ==
  IF id = 1 THEN {CalcPayload(5), WeatherPayload("Paris", 20)}
  ELSE {CalcPayload(7), WeatherPayload("Oslo", 3)}
Entries(id) ==
  {ResultEntry(id, "completed", p) : p \in OwnPayloads(id)}
    \cup {ResultEntry(id, "failed", NoToolPayload)}

\* ResolveInit draws the two runs of the plan: in both, task-1 has finished
\* when task-3 is started (completed, if task-3 waits for it); task-2, which
\* task-3 does not declare, has finished in the second run only, before or
\* after task-1

ResolveArgs ==
  /\ ~resolved.called
  /\ resolved' =
       [called |-> TRUE,
        without |-> ResolveQuery(resolveInput.task, resolveInput.without,
                                 resolveInput.taskMap),
        with |-> ResolveQuery(resolveInput.task, resolveInput.with,
                              resolveInput.taskMap)]
  /\ UNCHANGED <<resolveInput, sortVars, plannerVars, routeVars, execVars, clientVars>>

ResolveInit ==
  /\ ExecutorUnused
  /\ ClientUnused
  /\ RouteUnused
  /\ PlannerUnused
  /\ SortUnused
  /\ \E t \in SearchTasks, c1 \in BOOLEAN, c2 \in BOOLEAN :
     \E e1 \in Entries(1), e2 \in Entries(2) :
     \E with \in {<<e1, e2>>, <<e2, e1>>} :
        /\ 1 \in Range(t.deps) => e1.status = "completed"
        /\ resolveInput = [task |-> t, taskMap |-> <<c1, c2>>,
                           without |-> <<e1>>, with |-> with]
  /\ resolved = NotResolved

ResolveNext == ResolveArgs

ResolveSpec == ResolveInit /\ [][ResolveNext]_vars

(* ============================== properties ============================== *)
TaskIds == TaskIdsOf(plan)
DepsOf(t) == Range(TaskOf(plan, t).deps)
Terminal == {"completed", "failed", "skipped"}

\* tasks for which executeTask has been started and whose worker has not finished
InFlight == {t \in Ids : worker[t].pc \notin {"idle", "finished"}}

\* startTime of the executeTask call made for t
StartedAt(t) ==
  IF worker[t].pc = "finished" THEN results[t].startedAt ELSE worker[t].startTime

\* ids reachable from the ids in S along declared dependencies, in <= n steps
RECURSIVE ReachN(_, _)
ReachN(S, n) ==
  IF n = 0 THEN S
  ELSE ReachN(S \cup UNION {DepsOf(x) : x \in S \cap TaskIds}, n - 1)

TransitiveDeps(t) == ReachN(DepsOf(t), MaxId + 1)
HasCycle == \E t \in TaskIds : t \in TransitiveDeps(t)

(* C1: a task is dispatched (its `running` update emitted, executeTask
   started) only when every dependency it lists has a recorded result with
   status `completed`, and that dependency's completedAt is not later than
   the task's startedAt. *)
C1_RunningOnlyAfterDependencies ==
  \A t \in TaskIds :
    ("running" \in Range(updates[t]) \/ worker[t].pc # "idle") =>
      \A d \in DepsOf(t) :
        /\ results[d].status = "completed"
        /\ results[d].completedAt <= StartedAt(t)

\* the chain task-1 -> task-2 -> task-3 ran to the end with every task
\* completed, task-1 strictly before task-2 started
C1_Witness ==
  /\ plan = Chain(3)
  /\ pc = "done"
  /\ \A t \in 1..3 : results[t].status = "completed"
  /\ results[1].completedAt < results[2].startedAt

(* C2: when executePlan has returned, every task that lists a dependency which
   ended `failed` after exhausting its retries has the result `skipped` with
   an error naming that dependency, and was never executed. *)
C2_DependentsOfFailedAreSkipped ==
  pc = "done" =>
    \A t \in TaskIds : \A d \in DepsOf(t) :
      (results[d].status = "failed" /\ toolCalls[d] = MAX_ATTEMPTS) =>
        /\ results[t].status = "skipped"
        /\ d \in Range(results[t].error.ids)
        /\ toolCalls[t] = 0
        /\ "running" \notin Range(updates[t])

(* C3: when executePlan returns, the result map has an entry with status
   completed, failed or skipped for every task of the plan. *)
C3_ResultMapCoversPlan ==
  pc = "done" => \A t \in TaskIds : results[t].status \in Terminal

(* C4: at every instant at most 3 tasks are in flight. *)
C4_AtMostThreeInFlight ==
  /\ Cardinality(InFlight) <= 3
  /\ Cardinality(inProgress) <= 3

\* three of four independent tasks are running and the fourth is waiting
C4_Witness ==
  /\ plan = Indep(4)
  /\ Cardinality(InFlight) = 3
  /\ \A t \in InFlight : worker[t].pc = "tool"
  /\ readyQueue # <<>>

(* C5: executePlan eventually returns; when it has returned the in-flight set
   and the ready queue are empty, no task is executing, and no progress
   update is emitted afterwards. *)
C5_ReturnsQuiescent ==
  /\ <>(pc = "done")
  /\ [](pc = "done" => inProgress = {} /\ readyQueue = <<>> /\ InFlight = {})
  /\ [][pc = "done" => updates' = updates]_vars

\* the diamond plan has returned with its four tasks completed
C5_Witness ==
  /\ plan = Diamond
  /\ pc = "done"
  /\ \A t \in 1..4 : results[t].status = "completed" /\ Len(updates[t]) >= 2

(* C6: executePlan returns, and by then every task all of whose transitive
   dependencies completed has itself been executed to `completed` or
   `failed`, whatever happened to the other tasks. *)
C6_FailuresStayLocal ==
  /\ <>(pc = "done")
  /\ [](pc = "done" =>
         \A t \in TaskIds :
           (\A d \in TransitiveDeps(t) :
               d \in TaskIds /\ results[d].status = "completed")
             => results[t].status \in {"completed", "failed"})

\* of four independent tasks the first three failed, and the fourth, which
\* could only be dispatched after one of those failures, still completed
C6_Witness ==
  /\ plan = Indep(4)
  /\ pc = "done"
  /\ \A t \in 1..3 : results[t].status = "failed"
  /\ results[4].status = "completed"

(* C7: for a plan with a dependency cycle topologicalSort raises its
   circular-dependency error, executePlan orders the tasks by the numeric
   suffix of their id instead, and executePlan still returns. *)
C7_CycleFallsBackAndTerminates ==
  /\ [](HasCycle /\ pc # "start" =>
          /\ sortFailed
          /\ Len(sortedTasks) = Len(plan)
          /\ \A x \in Range(plan) : Count(sortedTasks, x) = Count(plan, x)
          /\ \A i \in 1..Len(sortedTasks) : \A j \in i..Len(sortedTasks) :
               sortedTasks[i].id <= sortedTasks[j].id)
  /\ [](HasCycle => <>(pc = "done"))

\* the plan with the cycle task-1 <-> task-2 has returned; the tasks off the
\* cycle were executed
C7_Witness ==
  /\ plan = CycleWithTail
  /\ pc = "done"
  /\ sortFailed
  /\ results[3].status = "completed"
  /\ results[4].status = "completed"

(* C8: a task is not blocked by a dependency id that no task of the plan owns:
   once its dependencies that do exist have completed, it is executed. *)
C8_DanglingDependencyDropped ==
  pc = "done" =>
    \A t \in TaskIds :
      (/\ DepsOf(t) \ TaskIds # {}
       /\ \A d \in TransitiveDeps(t) \cap TaskIds : results[d].status = "completed")
        => results[t].status \in {"completed", "failed"}

(* C9: executeTask never rejects: whatever it returns is a TaskResult for the
   task's own id with status completed or failed, and a failed one carries an
   error message. *)
C9_ExecuteTaskAlwaysResolves ==
  \A t \in Ids :
    worker[t].pc = "returned" =>
      /\ worker[t].ret.taskId = t
      /\ worker[t].ret.status \in {"completed", "failed"}
      /\ worker[t].ret.status = "failed" => worker[t].ret.error.msg # ""

\* one executeTask call returned failed for an unknown tool, another after
\* the tool threw on every attempt
C9_Witness ==
  \E t \in Ids, u \in Ids :
    /\ worker[t].pc = "returned" /\ worker[t].ret.status = "failed"
    /\ worker[t].ret.error = Err("Unknown tool")
    /\ worker[u].pc = "returned" /\ worker[u].ret.status = "failed"
    /\ worker[u].ret.error = ToolError(2)

(* C10: executeTask invokes the tool at most 3 times for one task; a failed
   result after a cache miss comes after exactly 3 invocations and carries
   the error of the third; once executeTask has returned, no further
   invocation is made. *)
C10_AtMostThreeAttempts ==
  /\ [](\A t \in Ids :
         /\ toolCalls[t] <= 3
         /\ (worker[t].pc = "returned" /\ worker[t].ret.status = "failed"
               /\ toolCalls[t] > 0)
              => (toolCalls[t] = 3 /\ worker[t].ret.error = ToolError(2)))
  /\ [][\A t \in Ids : worker[t].pc \in {"returned", "finished"}
                         => toolCalls'[t] = toolCalls[t]]_vars

\* a task is recorded failed after three invocations, with the third error
C10_Witness ==
  \E t \in TaskIds :
    /\ results[t].status = "failed"
    /\ toolCalls[t] = 3
    /\ results[t].error = ToolError(2)


KindOf(t) == TaskOf(plan, t).kind
FingerprintOf(t) == TaskOf(plan, t).key
Last(log) == log[Len(log)]

(* C11: every failed attempt but the last is followed by exactly one retry
   update and then by a backoff timer before the next attempt; the timers
   wait 1000 ms after the first failure and 2000 ms after the second, each
   strictly longer than the one before; the last failed attempt is followed
   by neither an update nor a timer. *)
C11_RetriesAnnouncedWithGrowingBackoff ==
  /\ [](\A t \in Ids :
         LET w == worker[t].waits
         IN worker[t].pc \notin {"idle", "finished"} =>
              /\ Count(updates[t], "retry") = Len(w)
              /\ Len(w) <= 2
              /\ \A i \in 1..Len(w) : w[i] = 1000 * i
              /\ \A i \in 2..Len(w) : w[i] > w[i - 1]
              /\ worker[t].pc = "backoff" =>
                   Last(updates[t]) = "retry" /\ Len(w) = worker[t].attempt + 1)
  /\ [][\A t \in Ids :
          /\ (worker[t].pc = "tool" /\ worker'[t].pc = "tool")
               => worker'[t].attempt = worker[t].attempt
          /\ (worker[t].pc = "tool" /\ worker'[t].pc = "backoff")
               => /\ updates'[t] = Append(updates[t], "retry")
                  /\ Len(worker'[t].waits) = Len(worker[t].waits) + 1
          /\ (worker[t].pc = "backoff" /\ worker'[t].pc # "backoff")
               => /\ worker'[t].pc = "tool"
                  /\ worker'[t].attempt = worker[t].attempt + 1
                  /\ updates'[t] = updates[t]
          /\ (worker[t].pc = "tool" /\ worker'[t].pc = "returned"
                /\ worker'[t].ret.status = "failed")
               => /\ worker[t].attempt = 2
                  /\ updates'[t] = updates[t]
                  /\ worker'[t].waits = worker[t].waits]_vars

\* a task failed its three attempts after waiting 1000 ms, then 2000 ms
C11_Witness ==
  \E t \in TaskIds :
    /\ worker[t].pc = "returned"
    /\ worker[t].ret.status = "failed"
    /\ worker[t].waits = <<1000, 2000>>
    /\ updates[t] = <<"running", "retry", "retry">>

(* C12: a task whose required field is still missing after parameter
   resolution is returned `failed` with a descriptive error by the
   synchronous prefix of executeTask: its tool is never invoked, no retry is
   announced, no backoff timer is started, no cache key is computed, the
   cache is not read and no step of the task changes the cache. *)
C12_MissingFieldFailsImmediately ==
  /\ [](\A t \in TaskIds :
         KindOf(t) = "missingField" =>
           /\ worker[t].pc \in {"idle", "returned", "finished"}
           /\ toolCalls[t] = 0
           /\ "retry" \notin Range(updates[t])
           /\ worker[t].waits = <<>>
           /\ worker[t].key = 0 /\ worker[t].cached = NoPayload
           /\ worker[t].pc = "returned" =>
                /\ worker[t].ret.status = "failed"
                /\ worker[t].ret.error = Err("Task requires a field")
           /\ results[t].status # "none" =>
                /\ results[t].status = "failed"
                /\ results[t].error = Err("Task requires a field"))
  /\ [][\A t \in TaskIds :
          (KindOf(t) = "missingField" /\ worker'[t] # worker[t])
            => cache' = cache]_vars

\* the plan has returned with a task failed for its missing field
C12_Witness ==
  /\ pc = "done"
  /\ \E t \in TaskIds :
       /\ KindOf(t) = "missingField"
       /\ results[t].status = "failed"
       /\ results[t].error = Err("Task requires a field")
       /\ updates[t] = <<"running", "failed">>

(* C13: when a task has completed and a task with the same fingerprint is
   run after it (it lists the first as a dependency), the second run makes no
   tool invocation and completes with the payload the first one has. *)
C13_SecondRunHitsCache ==
  \A t \in TaskIds : \A u \in DepsOf(t) \cap TaskIds :
    (/\ KindOf(t) = "ok"
     /\ FingerprintOf(u) = FingerprintOf(t)
     /\ results[u].status = "completed"
     /\ worker[t].pc # "idle")
      => /\ toolCalls[t] = 0
         /\ worker[t].pc \in {"cacheGet", "returned", "finished"}
         /\ worker[t].pc = "returned" =>
              /\ worker[t].ret.status = "completed"
              /\ worker[t].ret.result = results[u].result
         /\ results[t].status # "none" =>
              /\ results[t].status = "completed"
              /\ results[t].result = results[u].result

\* task-1 ran its tool once, task-2 with the same fingerprint got task-1's
\* payload from the cache
C13_Witness ==
  /\ pc = "done"
  /\ plan \in KindPlans
  /\ FingerprintOf(1) = FingerprintOf(2)
  /\ toolCalls[1] = 1 /\ results[1].result = ToolPayload(1)
  /\ toolCalls[2] = 0 /\ results[2].result = ToolPayload(1)
  /\ results[2].status = "completed"

(* C17: with any cache backend a task with a known tool and resolved
   parameters returns completed from the cache without a tool invocation,
   completed with its tool's payload after 1 to 3 invocations, or failed with
   the third tool error after 3 invocations; a first attempt that succeeds
   returns completed after exactly one invocation. *)
C17_CacheFailuresLeaveOutcomes ==
  /\ [](\A t \in TaskIds :
         (KindOf(t) = "ok" /\ worker[t].pc = "returned") =>
            LET ret == worker[t].ret
            IN \/ /\ ret.status = "completed" /\ toolCalls[t] = 0
                  /\ ret.result # NoPayload /\ ret.result # ToolPayload(t)
               \/ /\ ret.status = "completed" /\ toolCalls[t] \in 1..3
                  /\ ret.result = ToolPayload(t)
               \/ /\ ret.status = "failed" /\ toolCalls[t] = 3
                  /\ ret.error = ToolError(2))
  /\ [][\A t \in TaskIds :
          (/\ worker[t].pc = "tool" /\ worker[t].attempt = 0
           /\ worker'[t].pc = "returned")
            => /\ worker'[t].ret.status = "completed"
               /\ worker'[t].ret.result = ToolPayload(t)
               /\ toolCalls'[t] = 1]_vars

\* behind a failing backend both tasks of a plan ran their tool once and
\* completed, although they share a fingerprint and nothing was stored
C17_Witness ==
  /\ pc = "done"
  /\ backend # "memory"
  /\ FingerprintOf(1) = FingerprintOf(2)
  /\ DepsOf(2) = {1}
  /\ \A t \in 1..2 : results[t].status = "completed" /\ toolCalls[t] = 1
  /\ cache = EmptyStore

\* what onUpdate may have seen for one task: nothing, or a single skipped,
\* or running, then retries, then at most one of completed and failed
UpdateLogOk(log) ==
  \/ log = <<>>
  \/ log = <<"skipped">>
  \/ /\ Head(log) = "running"
     /\ \A i \in 2..(Len(log) - 1) : log[i] = "retry"
     /\ Len(log) > 1 => Last(log) \in {"retry", "completed", "failed"}

(* C19: the updates of one task are `running`, then retry notifications,
   then exactly one of `completed` and `failed` and nothing after it, or a
   single `skipped`; the terminal update is there exactly when the result is
   recorded and carries the recorded status. *)
C19_UpdateSequencePerTask ==
  \A t \in Ids :
    /\ UpdateLogOk(updates[t])
    /\ results[t].status \in Terminal
         <=> (updates[t] # <<>> /\ Last(updates[t]) \in Terminal)
    /\ results[t].status \in Terminal => Last(updates[t]) = results[t].status

\* a task went through running, two retry notifications and failed
C19_Witness ==
  \E t \in TaskIds :
    /\ updates[t] = <<"running", "retry", "retry", "failed">>
    /\ results[t].status = "failed"

(* C20: a terminal entry of the result map is never replaced or modified. *)
C20_TerminalResultImmutable ==
  [][\A t \in Ids :
       results[t].status \in Terminal => results'[t] = results[t]]_vars

\* task-4, listed twice, failed after its first listing was dispatched; its
\* second listing was taken from the queue without a second run and the plan
\* has returned
C20_Witness ==
  /\ plan = DuplicateId
  /\ pc = "done"
  /\ results[4].status = "failed"
  /\ toolCalls[4] = MAX_ATTEMPTS


\* the caller's latest call is a get of a key it has set before, through the
\* same AgentCache object
GetAfterSet ==
  /\ lastOp.op = "get"
  /\ lastSet[lastOp.key] # NoSet
  /\ lastSet[lastOp.key].seq < lastOp.seq
  /\ lastSet[lastOp.key].via = lastOp.via
\* time between that set and the get
SinceSet == lastOp.at - lastSet[lastOp.key].at

(* C14: on an InMemoryAgentCache, a get of a key made at the instant of the
   latest set of that key returns the value that was set; a get made more
   than DEFAULT_TTL_MS (24 h) after the latest set returns nothing and
   leaves no entry for the key in the store. *)
C14_MemoryRoundTripAndExpiry ==
  (GetAfterSet /\ lastOp.via.kind = "memory") =>
     /\ SinceSet = 0 => lastOp.entry.result = lastSet[lastOp.key].value
     /\ SinceSet > DEFAULT_TTL_MS =>
          /\ lastOp.entry = NoEntry
          /\ cc.instances[lastOp.via.n][lastOp.key] = NoEntry

\* 24 h and 1 ms after a set with the default ttl, before the cleanup timer
\* of that set has run, a get found the entry expired and removed it
C14_Witness ==
  /\ GetAfterSet
  /\ lastOp.via.kind = "memory"
  /\ lastSet[lastOp.key].ttl = DEFAULT_TTL_MS
  /\ SinceSet = DEFAULT_TTL_MS + 1
  /\ lastOp.entry = NoEntry
  /\ cc.instances[lastOp.via.n][lastOp.key] = NoEntry
  /\ \E tm \in cc.timers : tm.inst = lastOp.via.n /\ tm.key = lastOp.key

(* C15: whichever AgentCache the caller holds, a get never returns an entry
   that is older than the ttl its set was called with. *)
C15_ReadsRecheckTtl ==
  (lastOp.op = "get" /\ lastOp.entry # NoEntry) =>
     lastOp.at - lastOp.entry.timestamp <= lastOp.entry.ttl

(* C16: with credentials configured and a remote client that cannot be
   created, a get through the object returned by getAgentCache returns the
   value of the latest set of that key made through the same object, as long
   as the ttl of that set has not elapsed. *)
C16_FailedProxyActsAsMemoryCache ==
  (/\ env.configured /\ ~env.importOk
   /\ GetAfterSet
   /\ lastOp.via = ProxyObj
   /\ SinceSet <= lastSet[lastOp.key].ttl)
    => lastOp.entry.result = lastSet[lastOp.key].value


\* the two maps hold the same key/value pairs
SamePairs(p, q) ==
  /\ \A i \in 1..Len(p) : \E j \in 1..Len(q) : p[i] = q[j]
  /\ \A j \in 1..Len(q) : \E i \in 1..Len(p) : p[i] = q[j]
\* some key has one value in p and another in q
DifferInValue(p, q) ==
  \E i \in 1..Len(p), j \in 1..Len(q) : p[i].k = q[j].k /\ p[i].v # q[j].v

(* C18: two argument maps with the same key/value pairs get the same key
   from generateKey, in whatever order their keys were inserted; two maps
   that give different values to some key are serialized to different
   strings before hashing. *)
C18_KeyIgnoresOrderAndSeparatesValues ==
  /\ SamePairs(fp[1].parts, fp[2].parts) => fp[1].key = fp[2].key
  /\ DifferInValue(fp[1].parts, fp[2].parts)
       => fp[1].normalized # fp[2].normalized

\* the tasks of the plan that list a dependency recorded as failed
BehindFailure == {t \in TaskIds : \E d \in DepsOf(t) : d \in failedTaskIds}

(* C30: the step that records a task as `failed` adds it to the failed set
   and leaves every remaining-dependency count, the ready queue and the
   completed set as they were; a task that lists a failed dependency is
   never in the ready queue or in flight, receives no update and has no
   entry in the result map. *)
C30_FailureReleasesNoDependent ==
  /\ [][\A t \in Ids :
          (results[t].status = "none" /\ results'[t].status = "failed")
            => /\ failedTaskIds' = failedTaskIds \cup {t}
               /\ depCount' = depCount
               /\ readyQueue' = readyQueue
               /\ completedTaskIds' = completedTaskIds]_vars
  /\ [](\A t \in BehindFailure :
          /\ t \notin Range(readyQueue)
          /\ t \notin inProgress
          /\ worker[t].pc = "idle"
          /\ updates[t] = <<>>
          /\ results[t] = NoResult)

\* the chain has returned: task-1 failed, task-2 still waits for one
\* dependency and was never visited
C30_Witness ==
  /\ plan = Chain(3)
  /\ pc = "done"
  /\ results[1].status = "failed"
  /\ depCount[2] = 1
  /\ updates[2] = <<>>
  /\ results[2] = NoResult

\* position of the first occurrence of x in log (0 when absent)
FirstPos(log, x) ==
  IF x \in Range(log) THEN CHOOSE i \in 1..Len(log) :
                              log[i] = x /\ \A j \in 1..(i - 1) : log[j] # x
  ELSE 0

(* C21: tasks are dispatched in the order their ids were pushed on the ready
   queue: when A was pushed before B and both have had their `running`
   update, A's update came before B's, whatever their numeric ids; the
   ready queue is always what is left of the pushed ids, in the order they
   were pushed. *)
C21_DispatchFollowsQueueOrder ==
  /\ \A a \in Ids, b \in Ids :
       (/\ a \in Range(dispatched) /\ b \in Range(dispatched)
        /\ FirstPos(enqueued, a) < FirstPos(enqueued, b))
         => FirstPos(dispatched, a) < FirstPos(dispatched, b)
  /\ \A t \in Range(dispatched) : t \in Range(enqueued)
  /\ readyQueue = SubSeq(enqueued, Len(enqueued) - Len(readyQueue) + 1, Len(enqueued))

\* task-3 was pushed and dispatched before task-2 although its id is larger
C21_Witness ==
  /\ plan = OutOfOrder
  /\ enqueued = <<1, 3, 2>>
  /\ dispatched = <<1, 3, 2>>
  /\ updates[3] # <<>> /\ updates[2] # <<>>

\* number of calls of client c that rateLimit allowed at the instants of S
RECURSIVE GrantedAt(_, _)
GrantedAt(c, S) ==
  IF S = {} THEN 0
  ELSE LET t == CHOOSE x \in S : TRUE
       IN granted[c][t] + GrantedAt(c, S \ {t})
\* ... in the window that ends at resetAt
GrantedInWindow(c, resetAt) ==
  GrantedAt(c, {t \in RateInstants :
                  resetAt - RATE_LIMIT_WINDOW <= t /\ t <= resetAt})

(* C26: for each client rateLimit allows at most 10 calls from the creation
   of a window to its resetAt, 60 s later; an allowed call reports what is
   left of the 10; a call refused in the window reports allowed = false and
   remaining = 0, and the route answers it with status 429 and a Retry-After
   header without planning anything. *)
C26_TenCallsPerWindow ==
  /\ \A c \in Clients :
       rateLimitStore[c] # NoRateEntry
         => GrantedInWindow(c, rateLimitStore[c].resetAt) <= 10
  /\ response # NoResponse =>
       LET n == GrantedInWindow(response.client, response.resetAt)
       IN /\ n <= 10
          /\ response.resetAt - RATE_LIMIT_WINDOW <= response.at
          /\ response.at <= response.resetAt
          /\ response.allowed => response.remaining = 10 - n
          /\ ~response.allowed =>
               /\ n = 10
               /\ response.remaining = 0
               /\ response.status = 429
               /\ response.retryAfter >= 0
               /\ ~response.planned
          /\ response.status = 429 => ~response.allowed

\* a client used the 10 calls of the window opened at instant 0 and is refused
\* at the resetAt of that window
C26_Witness ==
  /\ response.client = "ip1"
  /\ response.status = 429
  /\ response.at = RATE_LIMIT_WINDOW
  /\ response.resetAt = RATE_LIMIT_WINDOW
  /\ response.retryAfter = 0
  /\ GrantedInWindow("ip1", RATE_LIMIT_WINDOW) = 10

\* the LLM was called and did not deliver a usable plan: the call threw, its
\* output failed the schema, the timer won the race, or no task was left
LlmCallFailed ==
  /\ ~BudgetSpent(request.elapsed)
  /\ \/ request.llm \in LlmFailures
     \/ /\ request.llm.kind = "object"
        /\ Sanitize(request.goal, request.llm.tasks) = <<>>

(* C27: when the LLM call throws, loses against the planning timer, returns
   output that fails validation or returns no task at all, generatePlan does
   not reject: it returns a plan of at least one task. *)
C27_PlannerAlwaysFallsBack ==
  (generated # NotGenerated /\ LlmCallFailed) =>
     /\ generated.status = "returned"
     /\ Len(generated.tasks) >= 1

\* the timer won the race for a goal without any keyword, and generatePlan
\* returned the generic one-task search plan
C27_Witness ==
  /\ request.llm.kind = "timeout"
  /\ request.elapsed = 0
  /\ request.goal = NoGoal
  /\ generated = Returned(<<PlanTask(1, "web_search", FALSE, <<>>)>>)

(* C28: the tasks of every plan generatePlan returns have the ids task-1 ...
   task-n in list order, and every dependency of a task is the id of another
   task of the plan. *)
C28_PlanIdsAndDependenciesValid ==
  generated.status = "returned" =>
    \A i \in 1..Len(generated.tasks) :
      /\ generated.tasks[i].id = i
      /\ \A dep \in Range(generated.tasks[i].deps) :
           dep \in 1..Len(generated.tasks) /\ dep # i

\* the LLM listed task-2 (depending on task-1) before task-1 (depending on
\* task-2): after the renumbering each dependency names its own task, and
\* both are gone
C28_Witness ==
  /\ request.llm.kind = "object"
  /\ Len(request.llm.tasks) = 2
  /\ request.llm.tasks[1].id = 2 /\ request.llm.tasks[1].deps = <<1>>
  /\ request.llm.tasks[2].id = 1 /\ request.llm.tasks[2].deps = <<2>>
  /\ generated.status = "returned"
  /\ \A i \in 1..2 : generated.tasks[i].id = i /\ generated.tasks[i].deps = <<>>

\* the ids that tasks listed under an id of S declare as dependencies
DeclaredBy(tasks, S) ==
  UNION {Range(tasks[i].deps) : i \in {j \in 1..Len(tasks) : tasks[j].id \in S}}

\* ids reached from the ids of S along one or more declared dependencies
RECURSIVE ReachedIn(_, _, _)
ReachedIn(tasks, S, n) ==
  IF n = 0 THEN DeclaredBy(tasks, S)
  ELSE Once(ReachedIn(tasks, S, n - 1), LAMBDA R : R \cup DeclaredBy(tasks, R))

\* the task id lies on a cycle of declared dependencies
OnCycle(tasks, id) == id \in TaskIdsOf(tasks) /\ id \in ReachedIn(tasks, {id}, Len(tasks))
Cyclic(tasks) == \E id \in TaskIdsOf(tasks) : OnCycle(tasks, id)

\* the dependency references form a graph over the listed tasks: no two tasks
\* share an id and every dependency is the id of a listed task
OverListedTasks(tasks) ==
  /\ \A i, j \in 1..Len(tasks) : tasks[i].id = tasks[j].id => i = j
  /\ DeclaredBy(tasks, TaskIdsOf(tasks)) \subseteq TaskIdsOf(tasks)

(* C22: for a task list whose dependency references form a directed acyclic
   graph over the listed tasks, topologicalSort returns the input tasks, each
   exactly once, in an order where every task comes after all the tasks it
   depends on. *)
C22_SortIsLinearExtension ==
  sortOutcome.called /\ OverListedTasks(sortInput) /\ ~Cyclic(sortInput) =>
    /\ sortOutcome.ok
    /\ Len(sortOutcome.order) = Len(sortInput)
    /\ \A i \in 1..Len(sortInput) : Count(sortOutcome.order, sortInput[i]) = 1
    /\ \A i \in 1..Len(sortOutcome.order) :
         \A dep \in Range(sortOutcome.order[i].deps) :
           \E j \in 1..(i - 1) : sortOutcome.order[j].id = dep

\* task-1 waits for task-2 and task-3, and task-2 for task-3: the list is
\* returned reversed
C22_Witness ==
  /\ sortInput = <<Task(1, <<2, 3>>), Task(2, <<3>>), Task(3, <<>>)>>
  /\ sortOutcome.called
  /\ sortOutcome.ok
  /\ sortOutcome.order = <<Task(3, <<>>), Task(2, <<3>>), Task(1, <<2, 3>>)>>

(* C23: topologicalSort raises its circular-dependency error only when the
   dependency graph contains a cycle: whenever fewer tasks were removed by the
   Kahn reduction than were given, some task that was not removed lies on a
   cycle of declared dependencies. *)
C23_ErrorOnlyForCycles ==
  sortOutcome.called /\ ~sortOutcome.ok =>
    \E id \in Range(sortOutcome.involved) : OnCycle(sortInput, id)

(* C24: for a task list with a cycle, the error of topologicalSort names a
   task that lies on a cycle, and a cycle path it reports starts and ends at
   the same task and follows declared dependencies only: each task on it
   lists the next one as a dependency. *)
C24_ErrorNamesCycle ==
  sortOutcome.called /\ Cyclic(sortInput) =>
    /\ ~sortOutcome.ok
    /\ \E id \in Range(sortOutcome.involved) : OnCycle(sortInput, id)
    /\ sortOutcome.cyclePath # <<>> =>
         /\ Len(sortOutcome.cyclePath) >= 2
         /\ sortOutcome.cyclePath[1] = sortOutcome.cyclePath[Len(sortOutcome.cyclePath)]
         /\ \A i \in 1..(Len(sortOutcome.cyclePath) - 1) :
              sortOutcome.cyclePath[i + 1]
                \in DeclaredBy(sortInput, {sortOutcome.cyclePath[i]})

\* task-1 depends on the cycle task-2 <-> task-3 and is searched first: the
\* path reported leaves task-1 out
C24_Witness ==
  /\ sortInput = <<Task(1, <<2>>), Task(2, <<3>>), Task(3, <<2>>)>>
  /\ sortOutcome.called
  /\ ~sortOutcome.ok
  /\ sortOutcome.involved = <<1, 2, 3>>
  /\ sortOutcome.cyclePath = <<2, 3, 2>>

\* the executeTask call for u missed the cache under key k and went on to its
\* tool (it may have returned since)
MissedUnder(u, k) ==
  /\ toolCalls[u] >= 1
  /\ IF worker[u].pc = "finished" THEN u \in TaskIds /\ FingerprintOf(u) = k
     ELSE worker[u].key = k

\* a and b have both missed the cache under the same key, and a has not
\* returned: it is at a tool call or backing off
RacingOnMiss(a, b) ==
  /\ a # b
  /\ worker[a].pc \in {"tool", "backoff"}
  /\ MissedUnder(b, worker[a].key)

Racing == {t \in Ids : \E u \in Ids : RacingOnMiss(t, u)}

\* the tool of t has been invoked once per attempt, and a further attempt
\* was only made after the tool of t itself threw
OwnAttemptsOnly(t) ==
  /\ toolCalls[t] = worker[t].attempt + 1
  /\ worker[t].lastError =
       IF worker[t].pc = "backoff" THEN ToolError(worker[t].attempt)
       ELSE IF worker[t].attempt > 0 THEN ToolError(worker[t].attempt - 1)
       ELSE NoError

\* the continuation of t can run as soon as the driver is suspended
NotBlocked(t) ==
  DriverSuspended =>
    /\ worker[t].pc = "tool" => ENABLED ToolSucceeds(t)
    /\ worker[t].pc = "backoff" => ENABLED BackoffDone(t)

\* a step in which the tool call of t resolves and its result is written
WritesResult(t) ==
  /\ worker[t].pc = "tool"
  /\ worker'[t].pc = "returned"
  /\ worker'[t].ret.status = "completed"

\* a step in which executeTask returns a failed result for t
ReturnsFailed(t) ==
  /\ worker[t].pc \in {"tool", "backoff"}
  /\ worker'[t].pc = "returned"
  /\ worker'[t].ret.status = "failed"

\* what a step does for the tasks of a race, and where a changed cache entry
\* comes from
RaceStep ==
  /\ \A t \in Racing :
       /\ WritesResult(t) =>
            /\ cache'[worker[t].key] = ToolPayload(t)
            /\ worker'[t].ret.result = ToolPayload(t)
       /\ ReturnsFailed(t) =>
            /\ toolCalls[t] = MAX_ATTEMPTS
            /\ worker'[t].ret.error = ToolError(MAX_ATTEMPTS - 1)
  /\ \A k \in Keys :
       cache'[k] # cache[k] =>
         \E u \in Ids : WritesResult(u) /\ worker[u].key = k /\ cache'[k] = ToolPayload(u)

(* C25: when two tasks with the same fingerprint are in flight together and
   both missed the cache, both invoke their tool (as often as their own tool
   throws, no more), neither waits for the other, each write replaces the
   entry whatever it holds, so that the cache holds the value written last,
   and a task fails only with the error of its own third tool call. *)
C25_SameFingerprintRaceLastWriteWins ==
  /\ [](\A t \in Racing : OwnAttemptsOnly(t) /\ NotBlocked(t))
  /\ [][RaceStep]_vars

\* task-1 and task-2 share a fingerprint and were started together on an
\* empty cache; both called their tool once and completed with their own
\* result, and the entry is the one task-1 wrote after task-2
C25_Witness ==
  /\ Len(plan) = 2
  /\ FingerprintOf(1) = FingerprintOf(2)
  /\ DepsOf(2) = {}
  /\ \A t \in 1..2 :
       /\ results[t].status = "completed"
       /\ results[t].result = ToolPayload(t)
       /\ toolCalls[t] = 1
  /\ cache[FingerprintOf(1)] = ToolPayload(1)

(* C29: the arguments resolved for a task depend only on its description,
   its pre-supplied parameters and the results of the tasks it declares as
   dependencies: two runs of a plan that differ only in whether a task it
   does not declare had finished before it was started resolve the same
   query for it. *)
C29_ArgsIgnoreUndeclaredResults ==
  resolved.called => resolved.with = resolved.without

\* a step in which the route takes a request, i.e. rateLimit is called
RateLimitCalled == posts' # posts

(* C39: a call that rateLimit refuses leaves rateLimitStore as it was, for
   the caller and for every other identifier; the first call an identifier
   makes after the resetAt of its entry is allowed, replaces the entry by one
   with count 1 that ends a window later, and reports remaining = 9. *)
C39_RefusalKeepsStoreNewWindowStartsAtOne ==
  [][RateLimitCalled =>
       LET c == response'.client
           old == rateLimitStore[c]
       IN /\ ~response'.allowed => rateLimitStore' = rateLimitStore
          /\ old # NoRateEntry /\ response'.at > old.resetAt =>
               /\ response'.allowed
               /\ rateLimitStore'[c] =
                    RateLimitEntry(1, response'.at + RATE_LIMIT_WINDOW)
               /\ response'.remaining = 9]_vars

\* ip1 is refused at instant 1, after its ten calls; its entry still counts
\* ten calls, and ip2, which never called, still has no entry
C39_Witness ==
  /\ response.client = "ip1"
  /\ response.at = 1
  /\ ~response.allowed
  /\ rateLimitStore["ip1"] = RateLimitEntry(10, RATE_LIMIT_WINDOW)
  /\ rateLimitStore["ip2"] = NoRateEntry

\* 32-bit FNV-1a as it is specified: for each octet, xor it into the hash,
\* then multiply by the FNV prime 16777619 = 2^24 + 403 modulo 2^32
Fnv1aRound(h, octet) ==
  LET lo == Xor(h.lo, octet)
  IN Word((h.hi * 403 + lo * 256 + (lo * 403) \div 65536) % 65536,
          (lo * 403) % 65536)
RECURSIVE Fnv1a(_, _)
Fnv1a(h, octets) ==
  IF octets = <<>> THEN h
  ELSE Once(Fnv1aRound(h, Head(octets)), LAMBDA x : Fnv1a(x, Tail(octets)))
\* the digest written with 8 hexadecimal digits, most significant first
Digits8(h) ==
  [i \in 1..8 |-> LET half == IF i <= 4 THEN h.hi ELSE h.lo
                      d == (half \div (16^((8 - i) % 4))) % 16
                  IN IF d < 10 THEN 48 + d ELSE 87 + d]

\* what the generateKey of each backend returns for each argument map
\* (tabulated once: @@ yields an explicit function)
BackendKeys ==
  [b \in Backends |-> [p \in PartMaps |-> generateKeyOf(b, p)] @@ <<>>] @@ <<>>

(* C40: fnv1aHash returns the 32-bit FNV-1a digest of the character codes of
   its input (offset basis 0x811c9dc5, prime 16777619, modulo 2^32), written
   as exactly 8 lowercase hexadecimal digits, and the generateKey of the
   in-memory cache, of the Redis cache and of the lazy proxy return the same
   key for the same parts.  The digests of '' and of 'a' are the published
   ones, 811c9dc5 and e40c292c. *)
C40_KeyIsFnv1aOnEveryBackend ==
  /\ fnv1aHash(<<>>) = <<56, 49, 49, 99, 57, 100, 99, 53>>
  /\ fnv1aHash(<<97>>) = <<101, 52, 48, 99, 50, 57, 50, 99>>
  /\ \A i \in 1..2 :
       fp[i] # NoFingerprint =>
         /\ fp[i].key = Digits8(Fnv1a(Word(33052, 40389), fp[i].normalized))
         /\ Len(fp[i].key) = 8
         /\ \A j \in 1..8 : fp[i].key[j] \in (48..57) \cup (97..102)
         /\ \A b \in Backends : BackendKeys[b][fp[i].parts] = fp[i].key

\* the keys of {b: 'y', a: {c: 'x'}} and of {} have been computed
C40_Witness ==
  /\ fp[1].parts = <<Member(<<98>>, Str(<<121>>)),
                     Member(<<97>>, Obj(<<Member(<<99>>, Str(<<120>>))>>))>>
  /\ fp[2].parts = <<>>
  /\ Len(fp[1].key) = 8
  /\ fp[2].normalized = <<123, 125>>


(* ------------- C31: remaining-dependency counts (Spec) ------------------ *)
\* the number of entries of a dependency list whose target is not in S
Outstanding(deps, S) ==
  Cardinality({i \in 1..Len(deps) : deps[i] \notin S})

\* the worker of t hands a `completed` result to the completion handler
CompletesNow(t) ==
  /\ worker[t].pc = "returned"
  /\ worker'[t].pc = "finished"
  /\ worker[t].ret.status = "completed"

\* what the completion handler of t does to the counts and to the queue
CountsFollowCompletion(t) ==
  /\ \A i \in 1..Len(plan) :
        LET d == plan[i].id
            listings == Count(plan[i].deps, t)
        IN /\ depCount'[d] = depCount[d] - listings
           /\ Count(enqueued', d) - Count(enqueued, d) =
                IF listings > 0 /\ depCount'[d] = 0 THEN 1 ELSE 0
  /\ Len(readyQueue') - Len(readyQueue) = Len(enqueued') - Len(enqueued)
  /\ \A k \in 1..(Len(enqueued') - Len(enqueued)) :
        readyQueue'[Len(readyQueue) + k] = enqueued'[Len(enqueued) + k]

CountsStep ==
  /\ \A t \in Ids : CompletesNow(t) => CountsFollowCompletion(t)
  /\ (pc' # "start") =>
        \A i \in 1..Len(plan) :
           depCount'[plan[i].id] = Outstanding(plan[i].deps, completedTaskIds')

\* C31: when a task returns `completed`, the count of every task is
\* decreased by the number of times it lists that task, and a dependent is
\* appended to the ready queue (once) exactly when its count reaches zero;
\* once the scheduling state is built, the count of a task is the number of
\* its dependency references whose target is not in the completed set.
C31_CountIsOutstandingDependencies == [][CountsStep]_vars

\* the diamond after task-2 completed and before task-3 did: task-4 waits
\* for one reference; and a task listing task-1 twice, released by task-1
C31_Witness ==
  \/ /\ plan = Diamond
     /\ 2 \in completedTaskIds /\ 3 \notin completedTaskIds
     /\ depCount[4] = 1
     /\ enqueued = <<1, 2, 3>>
  \/ /\ plan = <<Task(1, <<>>), Task(2, <<1, 1>>)>>
     /\ 1 \in completedTaskIds
     /\ depCount[2] = 0
     /\ enqueued = <<1, 2>>


(* --------------- C32: cache writes of executeTask (BackendSpec) --------- *)
\* a step that puts a payload under key k
StoresUnder(k) == cache'[k] # cache[k] /\ cache'[k] # NoPayload

\* only the step in which the tool of a task that missed the cache resolves
\* stores anything, and it stores the result that task returns: no step of a
\* task that was served from the cache, and no step of a task that returns
\* `failed`, stores a payload
OnlyMissedSuccessStores ==
  \A k \in Keys :
    StoresUnder(k) =>
      \E t \in Ids :
        /\ WritesResult(t)
        /\ ~IsHit(worker[t].cached)
        /\ worker[t].key = k
        /\ cache'[k] = ToolPayload(t)
        /\ worker'[t].ret.result = ToolPayload(t)

\* the payloads other tasks with the fingerprint of t may have stored
RivalPayloads(t) ==
  {ToolPayload(u) : u \in {v \in Ids \ {t} : MissedUnder(v, worker[t].key)}}

\* as claimed: cache.set is called before the return, the entry is there
\* when the return is made, and the payload of every `completed` update is
\* what the cache holds under the task's key when the update is made
WriteBeforeReturnClaimed ==
  /\ OnlyMissedSuccessStores
  /\ \A t \in Ids :
       /\ WritesResult(t) => cache'[worker[t].key] = ToolPayload(t)
       /\ CompletesNow(t) => cache[worker[t].key] = worker[t].ret.result

\* what the code gives: the remote set may fail, which is swallowed; with
\* the in-memory cache the key holds, when the update is made, the payload of
\* the task or one stored since by a task with the same fingerprint
WriteBeforeReturn ==
  /\ OnlyMissedSuccessStores
  /\ \A t \in Ids :
       /\ WritesResult(t) =>
            \/ cache'[worker[t].key] = ToolPayload(t)
            \/ backend = "redis" /\ cache' = cache
       /\ CompletesNow(t) /\ backend = "memory" =>
            cache[worker[t].key] \in {worker[t].ret.result} \cup RivalPayloads(t)

\* C32 as stated: on a miss executeTask writes the tool's result to the cache
\* before it returns `completed`, so that at every `completed` update the
\* payload of the update is what the cache holds under the task's key; a
\* task that ends `failed` never writes and a cache hit writes nothing.
C32_CompletedPayloadIsCached == [][WriteBeforeReturnClaimed]_vars

\* C32, amended: on a miss executeTask calls cache.set with the tool's result
\* before it returns `completed`; the entry is stored unless the remote set
\* fails, and with the in-memory cache the key holds at the `completed`
\* update the task's payload or that of a later writer with the same
\* fingerprint; a task that ends `failed` never writes and a cache hit
\* writes nothing.
C32_WriteBeforeReturnUnlessSetFails == [][WriteBeforeReturn]_vars

\* the `completed` update of task-1 has been made after a miss, with its
\* payload under its key in the in-memory cache, and task-2 was served from
\* the cache
C32_Witness ==
  /\ backend = "memory"
  /\ Len(updates[1]) > 0 /\ Last(updates[1]) = "completed"
  /\ toolCalls[1] = 1
  /\ cache[FingerprintOf(1)] = ToolPayload(1)
  /\ results[1].result = ToolPayload(1)
  /\ results[2].status = "completed" /\ toolCalls[2] = 0


(* ------------- C33: what startNext takes from the queue (Spec) ---------- *)
UniqueIds(tasks) ==
  \A i, j \in 1..Len(tasks) : tasks[i].id = tasks[j].id => i = j

\* the ids the readyQueue.shift() calls of one run of startNext return
TakenFromQueue == SubSeq(readyQueue, 1, Len(readyQueue) - Len(readyQueue'))

\* a run of startNext: the driver is at one of its two calls and moves on
StartNextRuns == pc \in {"wave", "sleep"} /\ pc' = "sleep"

\* every id taken has a task, none of whose dependencies is missing from the
\* completed set or present in the failed set, and it is dispatched
TakenAreReady ==
  StartNextRuns =>
    /\ \A i \in 1..Len(TakenFromQueue) :
         /\ TakenFromQueue[i] \in TaskIds
         /\ DepsMet(TaskOf(plan, TakenFromQueue[i]), completedTaskIds, failedTaskIds)
    /\ dispatched' = dispatched \o TakenFromQueue

NeverSkipped ==
  \A t \in Ids :
    /\ results'[t].status # "skipped"
    /\ \A i \in 1..Len(updates'[t]) : updates'[t][i] # "skipped"

QueueOnlyHoldsReady == UniqueIds(plan) => TakenAreReady /\ NeverSkipped

\* C33: for a plan with unique task ids, every id startNext takes from the
\* ready queue has all its dependencies in the completed set and none in the
\* failed set, so the re-validation passes and the task is dispatched; no
\* task gets a `skipped` result or update.
C33_QueuedTasksAreReady == [][QueueOnlyHoldsReady]_vars

\* the diamond with all four tasks taken and dispatched, task-4 after both
\* of its dependencies completed
C33_Witness ==
  /\ plan = Diamond
  /\ dispatched = <<1, 2, 3, 4>>
  /\ {2, 3} \subseteq completedTaskIds
  /\ readyQueue = <<>>


(* ------------- C34: one executeTask call per task id (Spec) ------------- *)
\* C34: in one plan execution executeTask is started at most once for a task
\* id (one `running` dispatch, one worker), whatever the plan and the
\* interleaving, also when the id stands more than once in the ready queue.
C34_ExecuteTaskStartedAtMostOnce ==
  \A t \in Ids :
    /\ Count(dispatched, t) <= 1
    /\ Count(updates[t], "running") <= 1
    /\ (worker[t].pc # "idle") => Count(dispatched, t) = 1

\* task-4 was pushed on the ready queue twice, both entries have been taken,
\* and it was started once
C34_Witness ==
  /\ plan = DuplicateId
  /\ Count(enqueued, 4) = 2
  /\ readyQueue = <<>>
  /\ Count(dispatched, 4) = 1
  /\ 4 \in completedTaskIds


(* ------------- C35: a dependency listed twice (Spec) -------------------- *)
\* the tasks that list some dependency more than once
ListsTwice(tasks) ==
  {i \in 1..Len(tasks) : \E d \in Range(tasks[i].deps) : Count(tasks[i].deps, d) > 1}

NoDangling(tasks) ==
  \A j \in 1..Len(tasks) : Range(tasks[j].deps) \subseteq TaskIdsOf(tasks)

AllCompleted(deps) == Range(deps) \subseteq completedTaskIds

\* position of the task with this id in the order the scheduler uses
PositionOf(id) == CHOOSE k \in 1..Len(sortedTasks) : sortedTasks[k].id = id

\* C35: a task that lists a dependency twice is released by the completion
\* of that dependency (pushed on the ready queue once, in the same step) and
\* dispatched exactly once by the time executePlan returns, never before its
\* dependencies completed and never a second time; topologicalSort accepts
\* the plan (when it has no cycle and no dangling reference) and places the
\* task after the dependency.
C35_DuplicateDependencyDispatchedOnce ==
  UniqueIds(plan) =>
    \A i \in ListsTwice(plan) :
      LET x == plan[i].id
          deps == plan[i].deps
      IN /\ Count(dispatched, x) <= 1
         /\ Count(dispatched, x) = 1 => AllCompleted(deps)
         /\ AllCompleted(deps) /\ pc # "start" => Count(enqueued, x) = 1
         /\ AllCompleted(deps) /\ pc = "done" => Count(dispatched, x) = 1
         /\ pc # "start" /\ ~sortFailed =>
              \A d \in Range(deps) : PositionOf(d) < PositionOf(x)
         /\ pc # "start" /\ ~HasCycle /\ NoDangling(plan) => ~sortFailed

\* task-2 lists task-1 twice; task-1 completed, task-2 was queued once,
\* dispatched once and has completed, after a sort that put task-1 first
C35_Witness ==
  /\ plan = <<Task(2, <<1, 1>>), Task(1, <<>>)>>
  /\ ~sortFailed
  /\ sortedTasks = <<Task(1, <<>>), Task(2, <<1, 1>>)>>
  /\ enqueued = <<1, 2>>
  /\ dispatched = <<1, 2>>
  /\ completedTaskIds = {1, 2}
  /\ pc = "done"


(* ------------- C36, C37: the plan generatePlan returns (PlanSpec) ------- *)
\* C36: every plan generatePlan returns is acyclic: each dependency of a
\* task is the id of a task with a strictly lower number.
C36_DependenciesPointToLowerIds ==
  generated.status = "returned" =>
    \A i \in 1..Len(generated.tasks) :
      \A dep \in Range(generated.tasks[i].deps) : dep < generated.tasks[i].id

\* the plan was made from the object of the LLM (not by a fallback)
FromLlmObject ==
  /\ generated.status = "returned"
  /\ ~BudgetSpent(request.elapsed)
  /\ request.llm.kind = "object"
  /\ Len(Sanitize(request.goal, request.llm.tasks)) > 0

\* the number of tasks put in front of the tasks of the LLM
Inserted == Len(generated.tasks) - Len(request.llm.tasks)

\* C37: when the plan is made from the LLM's tasks (with unique ids), the
\* task at position j depends in the returned plan on the task at position i
\* exactly when it listed that task in the LLM's output, whether the ids were
\* renumbered to be sequential or shifted by the inserted weather task.
C37_IdCorrectionKeepsDependencies ==
  FromLlmObject /\ UniqueIds(request.llm.tasks) =>
    \A i, j \in 1..Len(request.llm.tasks) :
      i # j =>
        (request.llm.tasks[i].id \in Range(request.llm.tasks[j].deps)
           <=> generated.tasks[i + Inserted].id
                 \in Range(generated.tasks[j + Inserted].deps))


(* ------------- C38: the event stream of one request (StreamSpec) -------- *)
\* the place of an event in the order planning status, plan, execution
\* (executing status and task updates), summarizing status, final event
Rank(e) ==
  CASE e = StatusEvent("planning") -> 1
    [] e.type = "plan" -> 2
    [] e = StatusEvent("executing") \/ e.type = "task_update" -> 3
    [] e = StatusEvent("summarizing") -> 4
    [] OTHER -> 5

IsFinal(e) == e.type \in {"complete", "error"}

FinalEvents(events) == {i \in 1..Len(events) : IsFinal(events[i])}

\* the events are in rank order; every stage but the execution has one
\* event; no stage is entered without the one before it (an error may
\* follow any stage); the execution opens with its status event
InOrder(events) ==
  /\ \A i, j \in 1..Len(events) :
       i < j =>
         /\ Rank(events[i]) <= Rank(events[j])
         /\ Rank(events[i]) = Rank(events[j]) => Rank(events[i]) = 3
  /\ \A j \in 1..Len(events) :
       /\ (Rank(events[j]) > 1 /\ events[j].type # "error") =>
            j > 1 /\ Rank(events[j - 1]) \in {Rank(events[j]) - 1, Rank(events[j])}
       /\ events[j].type = "error" => j > 1
       /\ (Rank(events[j]) = 3 /\ Rank(events[j - 1]) = 2) =>
            events[j] = StatusEvent("executing")

\* the complete event has one entry per task of the plan, in plan order, with
\* the last status passed for the task, and `unknown` for a task for which
\* executePlan passed no update (and so stored no result)
CompleteListsPlan(s) ==
  \A i \in 1..Len(s.events) :
    s.events[i].type = "complete" =>
      LET listed == s.events[i].taskResults
      IN /\ Len(listed) = Len(s.tasks)
         /\ \A k \in 1..Len(listed) :
              /\ listed[k].taskId = s.tasks[k]
              /\ listed[k].status =
                   IF UpdatesFor(s.updates, s.tasks[k]) = <<>> THEN "unknown"
                   ELSE LastStatus(s.updates, s.tasks[k])

StreamOrdered ==
  /\ InOrder(sse.events)
  /\ Cardinality(FinalEvents(sse.events)) <= 1
  /\ CompleteListsPlan(sse)

\* once the flag is set or close() was called, no chunk is enqueued
NothingAfterClose == (sse.closed \/ sse.closeCalled) => sse'.events = sse.events

\* C38 as stated: the events of a request come in the order planning status,
\* plan, executing status, task updates, summarizing status, and the request
\* ends with exactly one final event (`complete` or `error`); nothing is
\* enqueued after the stream was closed; `complete` lists every task of the
\* plan once, with `unknown` for a task without result and update.
C38_OrderedWithOneFinalEvent ==
  /\ [](StreamOrdered /\
        (sse.pc = "done" => Cardinality(FinalEvents(sse.events)) = 1))
  /\ [][NothingAfterClose]_vars

\* C38, amended: the same, but the final event is only there when the
\* consumer has not cancelled the stream: after an enqueue has failed the
\* route sends nothing more, no final event, and does not call close().
C38_OrderedWithFinalEventUnlessCancelled ==
  /\ [](StreamOrdered /\
        (sse.pc = "done" =>
           IF sse.consumer = "reading"
           THEN Cardinality(FinalEvents(sse.events)) = 1 /\ sse.closeCalled
           ELSE sse.closed))
  /\ [][NothingAfterClose]_vars

\* task-1 failed and task-2 was never started: the stream ends with the one
\* complete event, which lists task-2 as `unknown`
C38_Witness ==
  /\ sse.pc = "done"
  /\ sse.consumer = "reading"
  /\ sse.events =
       <<StatusEvent("planning"), PlanEvent, StatusEvent("executing"),
         TaskUpdateEvent(1, "running"), TaskUpdateEvent(1, "failed"),
         StatusEvent("executing"), StatusEvent("summarizing"),
         CompleteEvent(<<[taskId |-> 1, status |-> "failed"],
                         [taskId |-> 2, status |-> "unknown"]>>)>>
  /\ sse.closeCalled

====
